---- MODULE Spec2Model ----
(***************************************************************************)
(* Model of the ecs-fargate-cdk application: the entry point               *)
(* bin/ecs-service-app.ts, the environment table                           *)
(* lib/config/environment-config.ts, the stack constructors                *)
(* EcsServiceStack, EcsServiceCfnStack and SimpleEcsServiceStack (host-    *)
(* based and path-based), the listeners they declare answering a request,  *)
(* and scripts/deploy.sh.                                                  *)
(*                                                                         *)
(* A JavaScript object with string keys is a sequence of [key, value]      *)
(* entries in insertion order; an array is a sequence.                     *)
(***************************************************************************)
EXTENDS Integers, Sequences, FiniteSets, TLC

VARIABLES
  context,            \* the CDK context handed to the app (-c key=value)
  pc,                 \* position of the entry point
  environmentName,    \* const environmentName
  environmentConfig,  \* const environmentConfig
  stackType,          \* const stackType
  regionValues,       \* Object.values(environmentConfig.regions)
  idx,                \* number of forEach callbacks already run
  stacks,             \* the stacks constructed in the app, in order
  error,              \* the error thrown, NoError while none
  table,              \* the environments object as it is in memory
  http,               \* a request on its way through a stack's load balancer
  sh,                 \* a run of scripts/deploy.sh or of scripts/localstack.sh
  created             \* the resources of a stack the provisioning engine created

vars == <<context, pc, environmentName, environmentConfig, stackType,
          regionValues, idx, stacks, error, table, http, sh, created>>

----------------------------------------------------------------------------
(* JavaScript values and objects *)

Undefined == [type |-> "undefined"]

\* a member inherited from Object.prototype (constructor, toString, ...):
\* a truthy value that has no property of an EnvironmentConfig
ObjectPrototypeMember == [type |-> "function"]

ObjectPrototypeKeys ==
  {"constructor", "toString", "valueOf", "hasOwnProperty", "__proto__"}

Entry(k, v) == [key |-> k, value |-> v]

ObjectKeys(obj) == {obj[i].key : i \in 1..Len(obj)}

ObjectValues(obj) == [i \in 1..Len(obj) |-> obj[i].value]

HasOwn(obj, k) == \E i \in 1..Len(obj) : obj[i].key = k

GetOwn(obj, k) == obj[CHOOSE i \in 1..Len(obj) : obj[i].key = k].value

\* obj[k]: own property, else the prototype chain, else undefined
Lookup(obj, k) ==
  IF HasOwn(obj, k) THEN GetOwn(obj, k)
  ELSE IF k \in ObjectPrototypeKeys THEN ObjectPrototypeMember
  ELSE Undefined

\* obj[k] = v: an existing key keeps its position, a new key is appended
ObjectAssign(obj, k, v) ==
  IF HasOwn(obj, k)
  THEN [i \in 1..Len(obj) |-> IF obj[i].key = k THEN Entry(k, v) ELSE obj[i]]
  ELSE Append(obj, Entry(k, v))

\* { ...obj, ...src }
RECURSIVE ObjectSpread(_, _)
ObjectSpread(obj, src) ==
  IF src = <<>> THEN obj
  ELSE ObjectSpread(ObjectAssign(obj, Head(src).key, Head(src).value), Tail(src))

\* as OrDefault, but only undefined takes the default (the ?? operator)
OrDefaultNullish(opt, d) == IF opt = <<>> THEN d ELSE opt[1]

\* a || b on an optional string: undefined and '' are falsy
OrDefault(opt, d) == IF opt = <<>> \/ opt[1] = "" THEN d ELSE opt[1]

\* app.node.tryGetContext(key)
TryGetContext(ctx, k) == IF HasOwn(ctx, k) THEN <<GetOwn(ctx, k)>> ELSE <<>>

----------------------------------------------------------------------------
(* lib/config/environment-config.ts *)

LocalConfig ==
  [appName |-> "mcp-gw",
   environment |-> "local",
   regions |-> <<
     Entry("us-east-1",
       [region |-> "us-east-1",
        vpcId |-> "vpc-12345678",
        subnetIds |-> <<"subnet-12345678", "subnet-87654321">>,
        securityGroupIds |-> <<"sg-ae374e9b657d70aa0">>,
        certificateArn |-> "arn:aws:acm:us-east-1:000000000000:certificate/d332aa69-965b-4973-b83d-67fec57413a7",
        hostedZoneId |-> "0SQTVEPGW0AFBRL"]) >>,
   iamRoleArn |-> "arn:aws:iam::000000000000:role/ecs-task-role",
   domainName |-> "local.mcp-gw.com",
   containerImage |-> "mcp-gw-sample-app:latest",
   containerPort |-> 8000,
   healthCheckPath |-> "/ready/status",
   minCapacity |-> 1,
   maxCapacity |-> 2,
   desiredCount |-> 1,
   cpu |-> 256,
   memory |-> 512,
   containerEnvironmentVariables |-> <<
     Entry("NODE_ENV", "development"),
     Entry("LOG_LEVEL", "debug"),
     Entry("API_VERSION", "v1"),
     Entry("DATABASE_POOL_SIZE", "2"),
     Entry("CACHE_TTL", "60") >>]

DevConfig ==
  [appName |-> "mcp-gw",
   environment |-> "dev",
   regions |-> <<
     Entry("us-east-1",
       [region |-> "us-east-1",
        vpcId |-> "vpc-dev-us-east-1-xxxxxxxxx",
        subnetIds |-> <<"subnet-dev-us-east-1-xxxxxxxxx", "subnet-dev-us-east-1-yyyyyyyyy">>,
        securityGroupIds |-> <<"sg-dev-us-east-1-xxxxxxxxx">>,
        certificateArn |-> "arn:aws:acm:us-east-1:123456789012:certificate/dev-xxxxxxxxx",
        hostedZoneId |-> "Z1234567890123"]) >>,
   iamRoleArn |-> "arn:aws:iam::123456789012:role/dev-ecs-task-role",
   domainName |-> "dev.yourdomain.com",
   containerImage |-> "your-ecr-repo:dev-latest",
   containerPort |-> 8000,
   healthCheckPath |-> "/ready/status",
   minCapacity |-> 1,
   maxCapacity |-> 5,
   desiredCount |-> 2,
   cpu |-> 256,
   memory |-> 512,
   containerEnvironmentVariables |-> <<
     Entry("NODE_ENV", "development"),
     Entry("LOG_LEVEL", "debug"),
     Entry("API_VERSION", "v1"),
     Entry("DATABASE_POOL_SIZE", "5"),
     Entry("CACHE_TTL", "300") >>]

QaConfig ==
  [appName |-> "mcp-gw",
   environment |-> "qa",
   regions |-> <<
     Entry("us-east-1",
       [region |-> "us-east-1",
        vpcId |-> "vpc-qa-us-east-1-xxxxxxxxx",
        subnetIds |-> <<"subnet-qa-us-east-1-xxxxxxxxx", "subnet-qa-us-east-1-yyyyyyyyy">>,
        securityGroupIds |-> <<"sg-qa-us-east-1-xxxxxxxxx">>,
        certificateArn |-> "arn:aws:acm:us-east-1:123456789012:certificate/qa-xxxxxxxxx",
        hostedZoneId |-> "Z1234567890123"]),
     Entry("us-west-2",
       [region |-> "us-west-2",
        vpcId |-> "vpc-qa-us-west-2-xxxxxxxxx",
        subnetIds |-> <<"subnet-qa-us-west-2-xxxxxxxxx", "subnet-qa-us-west-2-yyyyyyyyy">>,
        securityGroupIds |-> <<"sg-qa-us-west-2-xxxxxxxxx">>,
        certificateArn |-> "arn:aws:acm:us-west-2:123456789012:certificate/qa-xxxxxxxxx",
        hostedZoneId |-> "Z1234567890123"]) >>,
   iamRoleArn |-> "arn:aws:iam::123456789012:role/qa-ecs-task-role",
   domainName |-> "qa.yourdomain.com",
   containerImage |-> "your-ecr-repo:qa-latest",
   containerPort |-> 8000,
   healthCheckPath |-> "/ready/status",
   minCapacity |-> 2,
   maxCapacity |-> 10,
   desiredCount |-> 3,
   cpu |-> 512,
   memory |-> 1024,
   containerEnvironmentVariables |-> <<
     Entry("NODE_ENV", "staging"),
     Entry("LOG_LEVEL", "info"),
     Entry("API_VERSION", "v1"),
     Entry("DATABASE_POOL_SIZE", "10"),
     Entry("CACHE_TTL", "600"),
     Entry("ENABLE_METRICS", "true") >>]

ProdConfig ==
  [appName |-> "mcp-gw",
   environment |-> "prod",
   regions |-> <<
     Entry("us-east-1",
       [region |-> "us-east-1",
        vpcId |-> "vpc-prod-us-east-1-xxxxxxxxx",
        subnetIds |-> <<"subnet-prod-us-east-1-xxxxxxxxx", "subnet-prod-us-east-1-yyyyyyyyy">>,
        securityGroupIds |-> <<"sg-prod-us-east-1-xxxxxxxxx">>,
        certificateArn |-> "arn:aws:acm:us-east-1:123456789012:certificate/prod-xxxxxxxxx",
        hostedZoneId |-> "Z1234567890123"]),
     Entry("us-west-2",
       [region |-> "us-west-2",
        vpcId |-> "vpc-prod-us-west-2-xxxxxxxxx",
        subnetIds |-> <<"subnet-prod-us-west-2-xxxxxxxxx", "subnet-prod-us-west-2-yyyyyyyyy">>,
        securityGroupIds |-> <<"sg-prod-us-west-2-xxxxxxxxx">>,
        certificateArn |-> "arn:aws:acm:us-west-2:123456789012:certificate/prod-xxxxxxxxx",
        hostedZoneId |-> "Z1234567890123"]) >>,
   iamRoleArn |-> "arn:aws:iam::123456789012:role/prod-ecs-task-role",
   domainName |-> "prod.yourdomain.com",
   containerImage |-> "your-ecr-repo:prod-latest",
   containerPort |-> 8000,
   healthCheckPath |-> "/ready/status",
   minCapacity |-> 5,
   maxCapacity |-> 20,
   desiredCount |-> 10,
   cpu |-> 1024,
   memory |-> 2048,
   containerEnvironmentVariables |-> <<
     Entry("NODE_ENV", "production"),
     Entry("LOG_LEVEL", "warn"),
     Entry("API_VERSION", "v1"),
     Entry("DATABASE_POOL_SIZE", "20"),
     Entry("CACHE_TTL", "900"),
     Entry("ENABLE_METRICS", "true"),
     Entry("PERFORMANCE_MONITORING", "true") >>]

\* the table with dev's desired count above its maximum capacity
environmentsDesiredAboveMax ==
  << Entry("local", LocalConfig),
     Entry("dev", [DevConfig EXCEPT !.desiredCount = 6]),
     Entry("qa", QaConfig),
     Entry("prod", ProdConfig) >>

\* the table with us-east-1's certificate pasted into prod's us-west-2 entry
environmentsCertificatePasted ==
  << Entry("local", LocalConfig),
     Entry("dev", DevConfig),
     Entry("qa", QaConfig),
     Entry("prod", [ProdConfig EXCEPT !.regions[2].value.certificateArn =
                                         ProdConfig.regions[1].value.certificateArn]) >>

\* the table with qa reduced to its first region
environmentsQaOneRegion ==
  << Entry("local", LocalConfig),
     Entry("dev", DevConfig),
     Entry("qa", [QaConfig EXCEPT !.regions = <<QaConfig.regions[1]>>]),
     Entry("prod", ProdConfig) >>

\* as environments, with the qa entry still carrying the name of the
\* dev entry it was copied from
environmentsQaNamedDev ==
  << Entry("local", LocalConfig),
     Entry("dev", DevConfig),
     Entry("qa", [QaConfig EXCEPT !.environment = "dev"]),
     Entry("prod", ProdConfig) >>

environments ==
  << Entry("local", LocalConfig),
     Entry("dev", DevConfig),
     Entry("qa", QaConfig),
     Entry("prod", ProdConfig) >>

----------------------------------------------------------------------------
(* Pieces shared by the stack constructors *)

NameValue(n, v) == [name |-> n, value |-> v]

\* the library renders an environment object as a list of name/value pairs
RenderEnvironment(obj) == [i \in 1..Len(obj) |-> NameValue(obj[i].key, obj[i].value)]

\* Object.entries(obj).map(([name, value]) => ({ name, value }))
EntriesToNameValue(obj) == [i \in 1..Len(obj) |-> NameValue(obj[i].key, obj[i].value)]

\* elbv2.ListenerAction.forward(targetGroups)
ForwardAction(targetGroups) == [type |-> "forward", targetGroups |-> targetGroups]

\* elbv2.ListenerAction.redirect({protocol, port, host, path, query, statusCode})
RedirectAction(host, path, query, statusCode) ==
  [type |-> "redirect", protocol |-> "HTTPS", port |-> "443",
   host |-> host, path |-> path, query |-> query, statusCode |-> statusCode]

\* elbv2.ListenerCondition.pathPatterns(values)
PathPatterns(values) == [field |-> "path-pattern", values |-> values]

\* elbv2.ListenerCondition.hostHeaders(values)
HostHeaders(values) == [field |-> "host-header", values |-> values]

\* listener.addAction(id, {priority, conditions: [condition], action})
ListenerRule(id, priority, condition, action) ==
  [id |-> id, priority |-> priority, conditions |-> <<condition>>, action |-> action]

\* as HttpRedirectAction, with a temporary redirect
HttpRedirectActionTemporary ==
  [type |-> "redirect", protocol |-> "HTTPS", port |-> "443", statusCode |-> "HTTP_302"]

\* redirect({protocol: 'HTTPS', port: '443', permanent: true})
HttpRedirectAction ==
  [type |-> "redirect", protocol |-> "HTTPS", port |-> "443", statusCode |-> "HTTP_301"]

HealthCheck(path) ==
  [enabled |-> TRUE, path |-> path, healthyHttpCodes |-> "200", interval |-> 30,
   timeout |-> 5, healthyThresholdCount |-> 2, unhealthyThresholdCount |-> 3]

\* a health check probing a port of its own
HealthCheckOnPort(path, port) ==
  [enabled |-> TRUE, path |-> path, port |-> port, healthyHttpCodes |-> "200",
   interval |-> 30, timeout |-> 5, healthyThresholdCount |-> 2,
   unhealthyThresholdCount |-> 3]

TargetTrackingPolicy(metric, target, scaleIn, scaleOut) ==
  [policyType |-> "TargetTrackingScaling", predefinedMetricType |-> metric,
   targetValue |-> target, scaleInCooldown |-> scaleIn, scaleOutCooldown |-> scaleOut]

\* securityGroups[0]: the first element, nothing when the array is empty
FirstOrNone(arr) == IF Len(arr) > 0 THEN <<arr[1]>> ELSE <<>>

\* as PropsAfterConstruct, with the system variables merged into the
\* configured object itself (Object.assign) instead of into a new one
PropsAfterConstructAssigned(props) ==
  [props EXCEPT !.environmentConfig.containerEnvironmentVariables =
     ObjectSpread(<<Entry("ENVIRONMENT", props.environmentConfig.environment),
                    Entry("REGION", props.regionConfig.region)>>, @)]

\* the props once a constructor has run: the constructors read
\* environmentConfig and regionConfig, build new objects from them
\* ({...}, map) and assign to none of their members
PropsAfterConstruct(props) == props

----------------------------------------------------------------------------
(* lib/ecs-service-stack.ts *)

\* as EcsServiceStackEnvironment, without the spread of the custom variables
EcsServiceStackEnvironmentSystemOnly(environmentCfg, regionCfg) ==
  RenderEnvironment(<<Entry("ENVIRONMENT", environmentCfg.environment),
                      Entry("REGION", regionCfg.region)>>)

EcsServiceStackEnvironment(environmentCfg, regionCfg) ==
  RenderEnvironment(
    ObjectSpread(<<Entry("ENVIRONMENT", environmentCfg.environment),
                   Entry("REGION", regionCfg.region)>>,
                 environmentCfg.containerEnvironmentVariables))

EcsServiceStackScaling(environmentCfg) ==
  [scalableTargets |-> <<[minCapacity |-> environmentCfg.minCapacity,
                           maxCapacity |-> environmentCfg.maxCapacity,
                           scalableDimension |-> "ecs:service:DesiredCount"]>>,
   policies |-> <<TargetTrackingPolicy("ECSServiceAverageCPUUtilization", 70, 300, 300),
                  TargetTrackingPolicy("ECSServiceAverageMemoryUtilization", 80, 300, 300)>>]

EcsServiceStack(id, props) ==
  LET environmentCfg == props.environmentConfig
      regionCfg == props.regionConfig
      greenTargetGroup ==
        [name |-> environmentCfg.appName \o "-" \o environmentCfg.environment \o "-green-tg-" \o regionCfg.region,
         port |-> environmentCfg.containerPort, protocol |-> "HTTP", targetType |-> "ip",
         healthCheck |-> HealthCheck(environmentCfg.healthCheckPath)]
      blueTargetGroup ==
        [name |-> environmentCfg.appName \o "-" \o environmentCfg.environment \o "-blue-tg-" \o regionCfg.region,
         port |-> environmentCfg.containerPort, protocol |-> "HTTP", targetType |-> "ip",
         healthCheck |-> HealthCheck(environmentCfg.healthCheckPath)]
  IN
  [class |-> "EcsServiceStack",
   id |-> id,
   env |-> props.env,
   environmentConfig |-> environmentCfg,
   regionConfig |-> regionCfg,
   clusterName |-> environmentCfg.appName \o "-" \o environmentCfg.environment \o "-cluster-" \o regionCfg.region,
   logGroupName |-> "/ecs/" \o environmentCfg.appName \o "-" \o environmentCfg.environment \o "-service-" \o regionCfg.region,
   taskDefinition |->
     [family |-> environmentCfg.appName \o "-" \o environmentCfg.environment \o "-task-" \o regionCfg.region,
      cpu |-> environmentCfg.cpu,
      memory |-> environmentCfg.memory,
      taskRoleArn |-> environmentCfg.iamRoleArn,
      executionRoleArn |-> environmentCfg.iamRoleArn],
   container |->
     [name |-> "AppContainer",
      image |-> environmentCfg.containerImage,
      portMappings |-> <<[containerPort |-> environmentCfg.containerPort, protocol |-> "tcp"]>>,
      environment |-> EcsServiceStackEnvironment(environmentCfg, regionCfg)],
   loadBalancer |->
     [name |-> environmentCfg.appName \o "-" \o environmentCfg.environment \o "-alb-" \o regionCfg.region,
      internetFacing |-> TRUE,
      subnets |-> regionCfg.subnetIds,
      securityGroups |-> FirstOrNone(regionCfg.securityGroupIds)],
   httpsListener |->
     [port |-> 443, protocol |-> "HTTPS",
      certificates |-> <<regionCfg.certificateArn>>,
      defaultAction |-> ForwardAction(<<"green">>),
      rules |-> <<>>],
   httpListener |->
     [port |-> 80, protocol |-> "HTTP", defaultAction |-> HttpRedirectAction,
      rules |-> <<>>],
   targetGroups |-> [green |-> greenTargetGroup, blue |-> blueTargetGroup],
   service |->
     [serviceName |-> environmentCfg.appName \o "-" \o environmentCfg.environment \o "-service-" \o regionCfg.region,
      desiredCount |-> environmentCfg.desiredCount,
      subnets |-> regionCfg.subnetIds,
      securityGroups |-> regionCfg.securityGroupIds,
      assignPublicIp |-> FALSE,
      enableExecuteCommand |-> TRUE,
      deploymentController |-> "CODE_DEPLOY",
      loadBalancers |-> <<[targetGroup |-> "green", containerName |-> "AppContainer",
                           containerPort |-> environmentCfg.containerPort]>>],
   scaling |-> EcsServiceStackScaling(environmentCfg),
   codeDeployApplication |->
     [applicationName |-> environmentCfg.appName \o "-" \o environmentCfg.environment \o "-codedeploy-" \o regionCfg.region],
   deploymentGroup |->
     [deploymentGroupName |-> environmentCfg.appName \o "-" \o environmentCfg.environment \o "-deployment-group-" \o regionCfg.region,
      deploymentConfig |-> "CodeDeployDefault.ECSAllAtOnce",
      roleArn |-> environmentCfg.iamRoleArn,
      listener |-> <<"https">>,
      targetGroups |-> <<"blue", "green">>,
      terminationWaitTimeInMinutes |-> 5],
   recordSet |->
     [hostedZoneId |-> regionCfg.hostedZoneId,
      name |-> environmentCfg.appName \o "-" \o environmentCfg.environment \o "-" \o regionCfg.region,
      type |-> "A"]]

----------------------------------------------------------------------------
(* lib/ecs-service-cfn-stack.ts *)

EcsServiceCfnStackEnvironment(environmentCfg, regionCfg) ==
  <<NameValue("ENVIRONMENT", environmentCfg.environment),
    NameValue("REGION", regionCfg.region)>>
  \o EntriesToNameValue(environmentCfg.containerEnvironmentVariables)

\* as EcsServiceCfnStackScaling, with the memory target copied from the CPU policy
EcsServiceCfnStackScalingSameTarget(environmentCfg) ==
  [scalableTargets |-> <<[minCapacity |-> environmentCfg.minCapacity,
                           maxCapacity |-> environmentCfg.maxCapacity,
                           scalableDimension |-> "ecs:service:DesiredCount"]>>,
   policies |-> <<TargetTrackingPolicy("ECSServiceAverageCPUUtilization", 70, 300, 300),
                  TargetTrackingPolicy("ECSServiceAverageMemoryUtilization", 70, 300, 300)>>]

EcsServiceCfnStackScaling(environmentCfg) ==
  [scalableTargets |-> <<[minCapacity |-> environmentCfg.minCapacity,
                           maxCapacity |-> environmentCfg.maxCapacity,
                           scalableDimension |-> "ecs:service:DesiredCount"]>>,
   policies |-> <<TargetTrackingPolicy("ECSServiceAverageCPUUtilization", 70, 300, 300),
                  TargetTrackingPolicy("ECSServiceAverageMemoryUtilization", 80, 300, 300)>>]

\* the resources the constructor declares, by their logical ids
EcsServiceCfnStackResources ==
  {"CfnCluster", "CfnLogGroup", "CfnTaskDefinition", "CfnLoadBalancer",
   "CfnGreenTargetGroup", "CfnBlueTargetGroup", "CfnHttpsListener",
   "CfnHttpListener", "CfnService", "CfnScalableTarget", "CfnCpuScalingPolicy",
   "CfnMemoryScalingPolicy", "CfnCodeDeployApplication", "CfnDeploymentGroup",
   "CfnRecordSet"}

\* the resources whose attributes (attrArn, attrName, attrId, ...) a
\* resource's properties read: a property set from a plain string of the
\* construct (clusterName, applicationName, logGroupName) is no reference
EcsServiceCfnStackReferences(resource) ==
  CASE resource = "CfnHttpsListener" -> {"CfnLoadBalancer", "CfnGreenTargetGroup"}
    [] resource = "CfnHttpListener" -> {"CfnLoadBalancer"}
    [] resource = "CfnService" -> {"CfnCluster", "CfnTaskDefinition", "CfnGreenTargetGroup"}
    [] resource = "CfnScalableTarget" -> {"CfnService"}
    [] resource = "CfnCpuScalingPolicy" -> {"CfnScalableTarget"}
    [] resource = "CfnMemoryScalingPolicy" -> {"CfnScalableTarget"}
    [] resource = "CfnDeploymentGroup" -> {"CfnService", "CfnGreenTargetGroup"}
    [] resource = "CfnRecordSet" -> {"CfnLoadBalancer"}
    [] OTHER -> {}

\* as EcsServiceCfnStackAddedDependencies, without the addDependency calls
EcsServiceCfnStackAddedDependenciesNone(resource) ==
  {}

\* the addDependency calls
EcsServiceCfnStackAddedDependencies(resource) ==
  CASE resource = "CfnService" -> {"CfnGreenTargetGroup", "CfnHttpsListener"}
    [] resource = "CfnScalableTarget" -> {"CfnService"}
    [] OTHER -> {}

\* DependsOn of each resource in the synthesized template
EcsServiceCfnStackDependsOn ==
  [resource \in EcsServiceCfnStackResources |->
     EcsServiceCfnStackReferences(resource) \cup EcsServiceCfnStackAddedDependencies(resource)]

EcsServiceCfnStack(id, props) ==
  LET environmentCfg == props.environmentConfig
      regionCfg == props.regionConfig
      cfnGreenTargetGroup ==
        [name |-> environmentCfg.appName \o "-" \o environmentCfg.environment \o "-cfn-green-tg-" \o regionCfg.region,
         port |-> environmentCfg.containerPort, protocol |-> "HTTP", targetType |-> "ip",
         healthCheck |-> HealthCheck(environmentCfg.healthCheckPath)]
      cfnBlueTargetGroup ==
        [name |-> environmentCfg.appName \o "-" \o environmentCfg.environment \o "-cfn-blue-tg-" \o regionCfg.region,
         port |-> environmentCfg.containerPort, protocol |-> "HTTP", targetType |-> "ip",
         healthCheck |-> HealthCheck(environmentCfg.healthCheckPath)]
  IN
  [class |-> "EcsServiceCfnStack",
   id |-> id,
   env |-> props.env,
   environmentConfig |-> environmentCfg,
   regionConfig |-> regionCfg,
   clusterName |-> environmentCfg.appName \o "-" \o environmentCfg.environment \o "-cfn-cluster-" \o regionCfg.region,
   logGroupName |-> "/ecs/" \o environmentCfg.appName \o "-" \o environmentCfg.environment \o "-cfn-service-" \o regionCfg.region,
   taskDefinition |->
     [family |-> environmentCfg.appName \o "-" \o environmentCfg.environment \o "-cfn-task-" \o regionCfg.region,
      cpu |-> environmentCfg.cpu,
      memory |-> environmentCfg.memory,
      taskRoleArn |-> environmentCfg.iamRoleArn,
      executionRoleArn |-> environmentCfg.iamRoleArn],
   container |->
     [name |-> "AppContainer",
      image |-> environmentCfg.containerImage,
      portMappings |-> <<[containerPort |-> environmentCfg.containerPort, protocol |-> "tcp"]>>,
      environment |-> EcsServiceCfnStackEnvironment(environmentCfg, regionCfg)],
   loadBalancer |->
     [name |-> environmentCfg.appName \o "-" \o environmentCfg.environment \o "-cfn-alb-" \o regionCfg.region,
      internetFacing |-> TRUE,
      subnets |-> regionCfg.subnetIds,
      securityGroups |-> regionCfg.securityGroupIds],
   httpsListener |->
     [port |-> 443, protocol |-> "HTTPS",
      certificates |-> <<regionCfg.certificateArn>>,
      defaultAction |-> ForwardAction(<<"green">>),
      rules |-> <<>>],
   httpListener |->
     [port |-> 80, protocol |-> "HTTP", defaultAction |-> HttpRedirectAction,
      rules |-> <<>>],
   targetGroups |-> [green |-> cfnGreenTargetGroup, blue |-> cfnBlueTargetGroup],
   service |->
     [serviceName |-> environmentCfg.appName \o "-" \o environmentCfg.environment \o "-cfn-service-" \o regionCfg.region,
      desiredCount |-> environmentCfg.desiredCount,
      subnets |-> regionCfg.subnetIds,
      securityGroups |-> regionCfg.securityGroupIds,
      assignPublicIp |-> FALSE,
      enableExecuteCommand |-> TRUE,
      deploymentController |-> "CODE_DEPLOY",
      loadBalancers |-> <<[targetGroup |-> "green", containerName |-> "AppContainer",
                           containerPort |-> environmentCfg.containerPort]>>],
   scaling |-> EcsServiceCfnStackScaling(environmentCfg),
   scalingPolicyNames |->
     <<environmentCfg.appName \o "-" \o environmentCfg.environment \o "-cfn-cpu-scaling-" \o regionCfg.region,
       environmentCfg.appName \o "-" \o environmentCfg.environment \o "-cfn-memory-scaling-" \o regionCfg.region>>,
   codeDeployApplication |->
     [applicationName |-> environmentCfg.appName \o "-" \o environmentCfg.environment \o "-cfn-codedeploy-" \o regionCfg.region],
   deploymentGroup |->
     [deploymentGroupName |-> environmentCfg.appName \o "-" \o environmentCfg.environment \o "-cfn-deployment-group-" \o regionCfg.region,
      deploymentConfig |-> "CodeDeployDefault.ECSAllAtOnce",
      roleArn |-> environmentCfg.iamRoleArn,
      listener |-> <<>>,
      targetGroups |-> <<"green">>,
      terminationWaitTimeInMinutes |-> 5],
   recordSet |->
     [hostedZoneId |-> regionCfg.hostedZoneId,
      name |-> environmentCfg.appName \o "-" \o environmentCfg.environment \o "-cfn-" \o regionCfg.region,
      type |-> "A"],
   dependsOn |-> EcsServiceCfnStackDependsOn]

----------------------------------------------------------------------------
(* lib/simple-ecs-service-stack.ts (host-based routing, fixed task count) *)

SimpleEcsServiceStackEnvironment(environmentCfg, regionCfg) ==
  RenderEnvironment(
    ObjectSpread(<<Entry("ENVIRONMENT", environmentCfg.environment),
                   Entry("REGION", regionCfg.region)>>,
                 environmentCfg.containerEnvironmentVariables))

\* as SimpleEcsServiceStackDesiredCount, with the count of the configuration
SimpleEcsServiceStackDesiredCountConfigured(environmentCfg) == environmentCfg.desiredCount

\* desiredCount: 1, // Fixed to 1 task
SimpleEcsServiceStackDesiredCount(environmentCfg) == 1

SimpleEcsServiceStack(id, props) ==
  LET environmentCfg == props.environmentConfig
      regionCfg == props.regionConfig
      targetGroup8000 ==
        [name |-> environmentCfg.appName \o "-" \o environmentCfg.environment \o "-tg-8000-" \o regionCfg.region,
         port |-> 8000, protocol |-> "HTTP", targetType |-> "ip",
         healthCheck |-> HealthCheckOnPort(environmentCfg.healthCheckPath, "8000")]
      targetGroup8001 ==
        [name |-> environmentCfg.appName \o "-" \o environmentCfg.environment \o "-tg-8001-" \o regionCfg.region,
         port |-> 8001, protocol |-> "HTTP", targetType |-> "ip",
         healthCheck |-> HealthCheckOnPort("/health", "8001")]
      targetGroup8002 ==
        [name |-> environmentCfg.appName \o "-" \o environmentCfg.environment \o "-tg-8002-" \o regionCfg.region,
         port |-> 8002, protocol |-> "HTTP", targetType |-> "ip",
         healthCheck |-> HealthCheckOnPort("/health", "8002")]
  IN
  [class |-> "SimpleEcsServiceStack",
   routing |-> "host-header",
   id |-> id,
   env |-> props.env,
   environmentConfig |-> environmentCfg,
   regionConfig |-> regionCfg,
   clusterName |-> environmentCfg.appName \o "-" \o environmentCfg.environment \o "-simple-cluster-" \o regionCfg.region,
   logGroupName |-> "/ecs/" \o environmentCfg.appName \o "-" \o environmentCfg.environment \o "-simple-service-" \o regionCfg.region,
   taskDefinition |->
     [family |-> environmentCfg.appName \o "-" \o environmentCfg.environment \o "-simple-task-" \o regionCfg.region,
      cpu |-> environmentCfg.cpu,
      memory |-> environmentCfg.memory,
      taskRoleArn |-> environmentCfg.iamRoleArn,
      executionRoleArn |-> environmentCfg.iamRoleArn],
   container |->
     [name |-> "AppContainer",
      image |-> environmentCfg.containerImage,
      portMappings |-> <<[containerPort |-> 8000, protocol |-> "tcp"],
                         [containerPort |-> 8001, protocol |-> "tcp"],
                         [containerPort |-> 8002, protocol |-> "tcp"]>>,
      environment |-> SimpleEcsServiceStackEnvironment(environmentCfg, regionCfg)],
   loadBalancer |->
     [name |-> environmentCfg.appName \o "-" \o environmentCfg.environment \o "-simple-alb-" \o regionCfg.region,
      internetFacing |-> TRUE,
      subnets |-> regionCfg.subnetIds,
      securityGroups |-> FirstOrNone(regionCfg.securityGroupIds)],
   httpsListener |->
     [port |-> 443, protocol |-> "HTTPS",
      certificates |-> <<regionCfg.certificateArn>>,
      defaultAction |-> ForwardAction(<<"tg8000">>),
      rules |-> <<ListenerRule("AdminHostAction", 100,
                               HostHeaders(<<"*.admin.cloud.example.com">>),
                               ForwardAction(<<"tg8001">>)),
                  ListenerRule("UiHostAction", 200,
                               HostHeaders(<<"*.ui.cloud.example.com">>),
                               ForwardAction(<<"tg8002">>))>>],
   httpListener |->
     [port |-> 80, protocol |-> "HTTP", defaultAction |-> HttpRedirectAction,
      rules |-> <<>>],
   targetGroups |-> [tg8000 |-> targetGroup8000, tg8001 |-> targetGroup8001,
                     tg8002 |-> targetGroup8002],
   service |->
     [serviceName |-> environmentCfg.appName \o "-" \o environmentCfg.environment \o "-simple-service-" \o regionCfg.region,
      desiredCount |-> SimpleEcsServiceStackDesiredCount(environmentCfg),
      subnets |-> regionCfg.subnetIds,
      securityGroups |-> regionCfg.securityGroupIds,
      assignPublicIp |-> FALSE,
      enableExecuteCommand |-> TRUE,
      deploymentController |-> "ECS",
      \* attachToApplicationTargetGroup registers the default container's
      \* first port mapping with each target group
      loadBalancers |-> <<[targetGroup |-> "tg8000", containerName |-> "AppContainer", containerPort |-> 8000],
                          [targetGroup |-> "tg8001", containerName |-> "AppContainer", containerPort |-> 8000],
                          [targetGroup |-> "tg8002", containerName |-> "AppContainer", containerPort |-> 8000]>>],
   scaling |-> [scalableTargets |-> <<>>, policies |-> <<>>],
   recordSet |->
     [hostedZoneId |-> regionCfg.hostedZoneId,
      name |-> environmentCfg.appName \o "-" \o environmentCfg.environment \o "-simple-" \o regionCfg.region,
      type |-> "A"]]

----------------------------------------------------------------------------
(* SimpleEcsServiceStack, path-based routing with redirects and scaling *)

SimpleEcsServiceStackPathBasedEnvironment(environmentCfg, regionCfg) ==
  RenderEnvironment(
    ObjectSpread(<<Entry("ENVIRONMENT", environmentCfg.environment),
                   Entry("REGION", regionCfg.region)>>,
                 environmentCfg.containerEnvironmentVariables))

SimpleEcsServiceStackPathBasedScaling(environmentCfg) ==
  [scalableTargets |-> <<[minCapacity |-> environmentCfg.minCapacity,
                           maxCapacity |-> environmentCfg.maxCapacity,
                           scalableDimension |-> "ecs:service:DesiredCount"]>>,
   policies |-> <<TargetTrackingPolicy("ECSServiceAverageCPUUtilization", 70, 300, 300),
                  TargetTrackingPolicy("ECSServiceAverageMemoryUtilization", 80, 300, 300)>>]

\* as SimpleEcsServiceStackPathBasedRules, with the /api/* redirect kept
\* under /api/
SimpleEcsServiceStackPathBasedRulesLooping ==
  <<ListenerRule("ApiRedirectAction", 50, PathPatterns(<<"/api/*">>),
                 RedirectAction("#{host}", "/api/internal#{path}", "#{query}", "HTTP_302")),
    ListenerRule("UiRedirectAction", 60, PathPatterns(<<"/ui/*">>),
                 RedirectAction("#{host}", "/ui-internal#{path[3:]}", "#{query}", "HTTP_302")),
    ListenerRule("Service8001Action", 100,
                 PathPatterns(<<"/api-internal", "/api-internal/*">>),
                 ForwardAction(<<"tg8001">>)),
    ListenerRule("Service8002Action", 200,
                 PathPatterns(<<"/ui-internal", "/ui-internal/*">>),
                 ForwardAction(<<"tg8002">>)),
    ListenerRule("ApiExactRedirectAction", 40, PathPatterns(<<"/api">>),
                 RedirectAction("#{host}", "/api-internal/", "#{query}", "HTTP_302")),
    ListenerRule("UiExactRedirectAction", 45, PathPatterns(<<"/ui">>),
                 RedirectAction("#{host}", "/ui-internal/", "#{query}", "HTTP_302"))>>

\* the rules of the HTTPS listener, in the order of the addAction calls
SimpleEcsServiceStackPathBasedRules ==
  <<ListenerRule("ApiRedirectAction", 50, PathPatterns(<<"/api/*">>),
                 RedirectAction("#{host}", "/api-internal#{path[4:]}", "#{query}", "HTTP_302")),
    ListenerRule("UiRedirectAction", 60, PathPatterns(<<"/ui/*">>),
                 RedirectAction("#{host}", "/ui-internal#{path[3:]}", "#{query}", "HTTP_302")),
    ListenerRule("Service8001Action", 100,
                 PathPatterns(<<"/api-internal", "/api-internal/*">>),
                 ForwardAction(<<"tg8001">>)),
    ListenerRule("Service8002Action", 200,
                 PathPatterns(<<"/ui-internal", "/ui-internal/*">>),
                 ForwardAction(<<"tg8002">>)),
    ListenerRule("ApiExactRedirectAction", 40, PathPatterns(<<"/api">>),
                 RedirectAction("#{host}", "/api-internal/", "#{query}", "HTTP_302")),
    ListenerRule("UiExactRedirectAction", 45, PathPatterns(<<"/ui">>),
                 RedirectAction("#{host}", "/ui-internal/", "#{query}", "HTTP_302"))>>

SimpleEcsServiceStackPathBased(id, props) ==
  LET environmentCfg == props.environmentConfig
      regionCfg == props.regionConfig
      targetGroup8000 ==
        [name |-> environmentCfg.appName \o "-" \o environmentCfg.environment \o "-tg-8000-" \o regionCfg.region,
         port |-> 8000, protocol |-> "HTTP", targetType |-> "ip",
         healthCheck |-> HealthCheckOnPort(environmentCfg.healthCheckPath, "8000")]
      targetGroup8001 ==
        [name |-> environmentCfg.appName \o "-" \o environmentCfg.environment \o "-tg-8001-" \o regionCfg.region,
         port |-> 8001, protocol |-> "HTTP", targetType |-> "ip",
         healthCheck |-> HealthCheckOnPort("/health", "8001")]
      targetGroup8002 ==
        [name |-> environmentCfg.appName \o "-" \o environmentCfg.environment \o "-tg-8002-" \o regionCfg.region,
         port |-> 8002, protocol |-> "HTTP", targetType |-> "ip",
         healthCheck |-> HealthCheckOnPort("/health", "8002")]
  IN
  [class |-> "SimpleEcsServiceStack",
   routing |-> "path-pattern",
   id |-> id,
   env |-> props.env,
   environmentConfig |-> environmentCfg,
   regionConfig |-> regionCfg,
   clusterName |-> environmentCfg.appName \o "-" \o environmentCfg.environment \o "-simple-cluster-" \o regionCfg.region,
   logGroupName |-> "/ecs/" \o environmentCfg.appName \o "-" \o environmentCfg.environment \o "-simple-service-" \o regionCfg.region,
   taskDefinition |->
     [family |-> environmentCfg.appName \o "-" \o environmentCfg.environment \o "-simple-task-" \o regionCfg.region,
      cpu |-> environmentCfg.cpu,
      memory |-> environmentCfg.memory,
      taskRoleArn |-> environmentCfg.iamRoleArn,
      executionRoleArn |-> environmentCfg.iamRoleArn],
   container |->
     [name |-> "AppContainer",
      image |-> environmentCfg.containerImage,
      portMappings |-> <<[containerPort |-> 8000, protocol |-> "tcp"],
                         [containerPort |-> 8001, protocol |-> "tcp"],
                         [containerPort |-> 8002, protocol |-> "tcp"]>>,
      environment |-> SimpleEcsServiceStackPathBasedEnvironment(environmentCfg, regionCfg)],
   loadBalancer |->
     [name |-> environmentCfg.appName \o "-" \o environmentCfg.environment \o "-simple-alb-" \o regionCfg.region,
      internetFacing |-> TRUE,
      subnets |-> regionCfg.subnetIds,
      securityGroups |-> FirstOrNone(regionCfg.securityGroupIds)],
   httpsListener |->
     [port |-> 443, protocol |-> "HTTPS",
      certificates |-> <<regionCfg.certificateArn>>,
      defaultAction |-> ForwardAction(<<"tg8000">>),
      rules |-> SimpleEcsServiceStackPathBasedRules],
   httpListener |->
     [port |-> 80, protocol |-> "HTTP", defaultAction |-> HttpRedirectAction,
      rules |-> <<>>],
   targetGroups |-> [tg8000 |-> targetGroup8000, tg8001 |-> targetGroup8001,
                     tg8002 |-> targetGroup8002],
   service |->
     [serviceName |-> environmentCfg.appName \o "-" \o environmentCfg.environment \o "-simple-service-" \o regionCfg.region,
      desiredCount |-> environmentCfg.desiredCount,
      subnets |-> regionCfg.subnetIds,
      securityGroups |-> regionCfg.securityGroupIds,
      assignPublicIp |-> FALSE,
      enableExecuteCommand |-> TRUE,
      deploymentController |-> "ECS",
      \* attachToApplicationTargetGroup registers the default container's
      \* first port mapping with each target group
      loadBalancers |-> <<[targetGroup |-> "tg8000", containerName |-> "AppContainer", containerPort |-> 8000],
                          [targetGroup |-> "tg8001", containerName |-> "AppContainer", containerPort |-> 8000],
                          [targetGroup |-> "tg8002", containerName |-> "AppContainer", containerPort |-> 8000]>>],
   scaling |-> SimpleEcsServiceStackPathBasedScaling(environmentCfg),
   recordSet |->
     [hostedZoneId |-> regionCfg.hostedZoneId,
      name |-> environmentCfg.appName \o "-" \o environmentCfg.environment \o "-simple-" \o regionCfg.region,
      type |-> "A"]]

----------------------------------------------------------------------------
(* bin/ecs-service-app.ts *)

NoError == [name |-> "", message |-> ""]

\* no request has been sent to a load balancer
NoRequest == [state |-> "none"]

\* scripts/deploy.sh has not been started
NotRun == [state |-> "none"]

EnvironmentNotFound(name) ==
  [name |-> "Error",
   message |-> "Environment '" \o name \o "' not found in configuration"]

StackTypeNotSupported(type) ==
  [name |-> "Error",
   message |-> "Stack type '" \o type \o "' not supported. Use 'high-level' or 'cfn'"]

\* Object.values(undefined)
ObjectValuesTypeError ==
  [name |-> "TypeError", message |-> "Cannot convert undefined or null to object"]

SupportedStackTypes == {"high-level", "cfn"}

\* values of -c environment=... tried: every table key, the empty string,
\* a name the table lacks, and a name every object inherits
EnvironmentInputs == {"", "local", "dev", "qa", "prod", "nonexistent", "constructor"}

\* values of -c stackType=... tried
StackTypeInputs == {"", "high-level", "cfn", "bogus-mode"}

Contexts ==
  {e \o t : e \in {<<>>} \cup {<<Entry("environment", v)>> : v \in EnvironmentInputs},
            t \in {<<>>} \cup {<<Entry("stackType", v)>> : v \in StackTypeInputs}}

Init ==
  /\ context \in Contexts
  /\ pc = "start"
  /\ environmentName = ""
  /\ environmentConfig = Undefined
  /\ stackType = ""
  /\ regionValues = <<>>
  /\ idx = 0
  /\ stacks = <<>>
  /\ error = NoError
  /\ table = environments
  /\ http = NoRequest
  /\ sh = NotRun
  /\ created = {}

\* lines 10-11
ReadEnvironment ==
  /\ pc = "start"
  /\ LET name == OrDefault(TryGetContext(context, "environment"), "dev")
     IN /\ environmentName' = name
        /\ environmentConfig' = Lookup(table, name)
  /\ pc' = "readStackType"
  /\ UNCHANGED <<context, stackType, regionValues, idx, stacks, error>>
  /\ UNCHANGED <<table, http, sh, created>>

\* line 14
ReadStackType ==
  /\ pc = "readStackType"
  /\ stackType' = OrDefault(TryGetContext(context, "stackType"), "high-level")
  /\ pc' = "checkEnvironment"
  /\ UNCHANGED <<context, environmentName, environmentConfig, regionValues, idx, stacks, error>>
  /\ UNCHANGED <<table, http, sh, created>>

\* lines 16-18
CheckEnvironment ==
  /\ pc = "checkEnvironment"
  /\ IF environmentConfig = Undefined
     THEN /\ error' = EnvironmentNotFound(environmentName)
          /\ pc' = "failed"
     ELSE /\ error' = error
          /\ pc' = "checkStackType"
  /\ UNCHANGED <<context, environmentName, environmentConfig, stackType, regionValues, idx, stacks>>
  /\ UNCHANGED <<table, http, sh, created>>

\* as CheckStackType, without the throw
CheckStackTypeNoThrow ==
  /\ pc = "checkStackType"
  /\ error' = error
  /\ pc' = "listRegions"
  /\ UNCHANGED <<context, environmentName, environmentConfig, stackType, regionValues, idx, stacks>>
  /\ UNCHANGED <<table, http, sh, created>>

\* lines 20-22
CheckStackType ==
  /\ pc = "checkStackType"
  /\ IF stackType \notin SupportedStackTypes
     THEN /\ error' = StackTypeNotSupported(stackType)
          /\ pc' = "failed"
     ELSE /\ error' = error
          /\ pc' = "listRegions"
  /\ UNCHANGED <<context, environmentName, environmentConfig, stackType, regionValues, idx, stacks>>
  /\ UNCHANGED <<table, http, sh, created>>

\* line 25, Object.values(environmentConfig.regions)
ListRegions ==
  /\ pc = "listRegions"
  /\ IF "regions" \in DOMAIN environmentConfig
     THEN /\ regionValues' = ObjectValues(environmentConfig.regions)
          /\ error' = error
          /\ pc' = "forEach"
     ELSE /\ regionValues' = regionValues
          /\ error' = ObjectValuesTypeError
          /\ pc' = "failed"
  /\ UNCHANGED <<context, environmentName, environmentConfig, stackType, idx, stacks>>
  /\ UNCHANGED <<table, http, sh, created>>

\* as BuildStack, with every stack given the first region as its target
BuildStackFirstRegion ==
  /\ pc = "forEach"
  /\ idx < Len(regionValues)
  /\ LET regionCfg == regionValues[idx + 1]
         stackSuffix == IF stackType = "cfn" THEN "-cfn" ELSE ""
         stackId == environmentConfig.appName \o "-" \o environmentConfig.environment
                      \o "-" \o regionCfg.region \o stackSuffix
         props == [env |-> [region |-> regionValues[1].region],
                   environmentConfig |-> environmentConfig,
                   regionConfig |-> regionCfg]
     IN stacks' = Append(stacks, IF stackType = "cfn"
                                 THEN EcsServiceCfnStack(stackId, props)
                                 ELSE EcsServiceStack(stackId, props))
  /\ idx' = idx + 1
  /\ UNCHANGED <<context, pc, environmentName, environmentConfig, stackType, regionValues, error>>
  /\ UNCHANGED <<table, http, sh, created>>

\* lines 25-50, one call of the forEach callback.  environmentConfig and
\* regionConfig are the objects of the table themselves, not copies: what
\* the constructor leaves in them is what the table holds afterwards.
BuildStack ==
  /\ pc = "forEach"
  /\ idx < Len(regionValues)
  /\ LET regionCfg == regionValues[idx + 1]
         stackSuffix == IF stackType = "cfn" THEN "-cfn" ELSE ""
         stackId == environmentConfig.appName \o "-" \o environmentConfig.environment
                      \o "-" \o regionCfg.region \o stackSuffix
         props == [env |-> [region |-> regionCfg.region],
                   environmentConfig |-> environmentConfig,
                   regionConfig |-> regionCfg]
         after == PropsAfterConstruct(props)
         configAfter == [after.environmentConfig EXCEPT
                           !.regions[idx + 1].value = after.regionConfig]
     IN /\ stacks' = Append(stacks, IF stackType = "cfn"
                                    THEN EcsServiceCfnStack(stackId, props)
                                    ELSE EcsServiceStack(stackId, props))
        /\ environmentConfig' = configAfter
        /\ regionValues' = [regionValues EXCEPT ![idx + 1] = after.regionConfig]
        /\ table' = ObjectAssign(table, environmentName, configAfter)
  /\ idx' = idx + 1
  /\ UNCHANGED <<context, pc, environmentName, stackType, error, http, sh, created>>

\* the forEach has visited every region: the script ends
Finish ==
  /\ pc = "forEach"
  /\ idx = Len(regionValues)
  /\ pc' = "done"
  /\ UNCHANGED <<context, environmentName, environmentConfig, stackType, regionValues, idx, stacks, error>>
  /\ UNCHANGED <<table, http, sh, created>>

Next ==
  \/ ReadEnvironment
  \/ ReadStackType
  \/ CheckEnvironment
  \/ CheckStackType
  \/ ListRegions
  \/ BuildStack
  \/ Finish

Spec == Init /\ [][Next]_vars

----------------------------------------------------------------------------
(* The entry point over tables edited as the documentation asks *)

\* the table with the regions of one environment replaced
WithRegions(name, regions) ==
  ObjectAssign(environments, name,
               [GetOwn(environments, name) EXCEPT !.regions = regions])

AddedRegionConfig ==
  [region |-> "eu-west-1",
   vpcId |-> "vpc-prod-eu-west-1-xxxxxxxxx",
   subnetIds |-> <<"subnet-prod-eu-west-1-xxxxxxxxx", "subnet-prod-eu-west-1-yyyyyyyyy">>,
   securityGroupIds |-> <<"sg-prod-eu-west-1-xxxxxxxxx">>,
   certificateArn |-> "arn:aws:acm:eu-west-1:123456789012:certificate/prod-xxxxxxxxx",
   hostedZoneId |-> "Z1234567890123"]

\* the table as shipped; prod with its regions in the other order, with
\* its second region removed, with its second region changed, with a
\* third region added; dev with no security group filled in
ConfiguredTables ==
  {environments,
   WithRegions("prod", <<ProdConfig.regions[2], ProdConfig.regions[1]>>),
   WithRegions("prod", <<ProdConfig.regions[1]>>),
   WithRegions("prod", [ProdConfig.regions EXCEPT
                          ![2].value.vpcId = "vpc-0123456789abcdef0",
                          ![2].value.securityGroupIds = <<"sg-0123456789abcdef0">>]),
   WithRegions("prod", Append(ProdConfig.regions, Entry("eu-west-1", AddedRegionConfig))),
   WithRegions("dev", [DevConfig.regions EXCEPT ![1].value.securityGroupIds = <<>>])}

InitConfigured ==
  /\ context \in Contexts
  /\ pc = "start"
  /\ environmentName = ""
  /\ environmentConfig = Undefined
  /\ stackType = ""
  /\ regionValues = <<>>
  /\ idx = 0
  /\ stacks = <<>>
  /\ error = NoError
  /\ table \in ConfiguredTables
  /\ http = NoRequest
  /\ sh = NotRun
  /\ created = {}

SpecConfigured == InitConfigured /\ [][Next]_vars

----------------------------------------------------------------------------
(* The stack constructors applied to configurations other than the table's *)

MaxCustomVars == 2

CustomKeys == {"ENVIRONMENT", "REGION", "LOG_LEVEL"}

CustomValues == {"debug", "spoofed"}

\* objects of at most MaxCustomVars entries: the keys of an object are distinct
CustomVariableObjects ==
  {obj \in UNION {[1..n -> {Entry(k, v) : k \in CustomKeys, v \in CustomValues}] :
                    n \in 0..MaxCustomVars} :
     \A i, j \in 1..Len(obj) : obj[i].key = obj[j].key => i = j}

AnyRegionConfigs ==
  {[region |-> r,
    vpcId |-> "vpc-" \o r,
    subnetIds |-> <<"subnet-a", "subnet-b">>,
    securityGroupIds |-> sg,
    certificateArn |-> "arn:aws:acm:" \o r \o ":123456789012:certificate/any",
    hostedZoneId |-> "Z1234567890123"] :
     r \in {"us-east-1", "us-west-2"},
     sg \in {<<>>, <<"sg-a">>, <<"sg-a", "sg-b">>}}

\* container ports tried: the one of the table and another one
AnyContainerPorts == {8000, 3000}

\* the sizing (cpu, memory, capacities, desired count) is the one of dev or
\* the one of prod
AnyEnvironmentConfigs(regionCfg) ==
  {[base EXCEPT !.environment = e,
                !.regions = <<Entry(regionCfg.region, regionCfg)>>,
                !.containerPort = port,
                !.containerEnvironmentVariables = cv] :
     base \in {DevConfig, ProdConfig}, e \in {"dev", "qa"},
     port \in AnyContainerPorts, cv \in CustomVariableObjects}

InitAny ==
  /\ context = <<>>
  /\ pc = "construct"
  /\ \E regionCfg \in AnyRegionConfigs :
       /\ regionValues = <<regionCfg>>
       /\ environmentConfig \in AnyEnvironmentConfigs(regionCfg)
  /\ environmentName = environmentConfig.environment
  /\ stackType = ""
  /\ idx = 0
  /\ stacks = <<>>
  /\ error = NoError
  /\ table = environments
  /\ http = NoRequest
  /\ sh = NotRun
  /\ created = {}

AnyProps ==
  [env |-> [region |-> regionValues[1].region],
   environmentConfig |-> environmentConfig,
   regionConfig |-> regionValues[1]]

ConstructEcsServiceStack ==
  /\ pc = "construct"
  /\ stacks = <<>>
  /\ stacks' = <<EcsServiceStack("Stack", AnyProps)>>
  /\ UNCHANGED <<context, pc, environmentName, environmentConfig, stackType, regionValues, idx, error>>
  /\ UNCHANGED <<table, http, sh, created>>

ConstructEcsServiceCfnStack ==
  /\ pc = "construct"
  /\ stacks = <<>>
  /\ stacks' = <<EcsServiceCfnStack("Stack", AnyProps)>>
  /\ UNCHANGED <<context, pc, environmentName, environmentConfig, stackType, regionValues, idx, error>>
  /\ UNCHANGED <<table, http, sh, created>>

ConstructSimpleEcsServiceStack ==
  /\ pc = "construct"
  /\ stacks = <<>>
  /\ stacks' = <<SimpleEcsServiceStack("Stack", AnyProps)>>
  /\ UNCHANGED <<context, pc, environmentName, environmentConfig, stackType, regionValues, idx, error>>
  /\ UNCHANGED <<table, http, sh, created>>

ConstructSimpleEcsServiceStackPathBased ==
  /\ pc = "construct"
  /\ stacks = <<>>
  /\ stacks' = <<SimpleEcsServiceStackPathBased("Stack", AnyProps)>>
  /\ UNCHANGED <<context, pc, environmentName, environmentConfig, stackType, regionValues, idx, error>>
  /\ UNCHANGED <<table, http, sh, created>>

NextAny ==
  \/ ConstructEcsServiceStack
  \/ ConstructEcsServiceCfnStack
  \/ ConstructSimpleEcsServiceStack
  \/ ConstructSimpleEcsServiceStackPathBased

SpecAny == InitAny /\ [][NextAny]_vars

----------------------------------------------------------------------------
(* A request answered by the listeners a stack declares *)

StringTail(s) == SubSeq(s, 2, Len(s))

\* a pathPatterns or hostHeaders value against a string: * stands for any
\* run of characters, ? for exactly one
RECURSIVE WildcardMatch(_, _)
WildcardMatch(pattern, s) ==
  IF pattern = "" THEN s = ""
  ELSE IF SubSeq(pattern, 1, 1) = "*"
       THEN \/ WildcardMatch(StringTail(pattern), s)
            \/ s # "" /\ WildcardMatch(pattern, StringTail(s))
       ELSE /\ s # ""
            /\ SubSeq(pattern, 1, 1) \in {"?", SubSeq(s, 1, 1)}
            /\ WildcardMatch(StringTail(pattern), StringTail(s))

\* a condition holds when one of its values matches
ConditionHolds(condition, request) ==
  LET subject == IF condition.field = "path-pattern" THEN request.path
                 ELSE request.host
  IN \E i \in 1..Len(condition.values) : WildcardMatch(condition.values[i], subject)

RuleMatches(rule, request) ==
  \A i \in 1..Len(rule.conditions) : ConditionHolds(rule.conditions[i], request)

\* as ListenerActionFor, with the rules of the listener left out
ListenerActionForDefault(listener, request) == listener.defaultAction

\* the action of the matching rule of lowest priority number, the default
\* action when no rule matches
ListenerActionFor(listener, request) ==
  LET matching == {i \in 1..Len(listener.rules) : RuleMatches(listener.rules[i], request)}
  IN IF matching = {} THEN listener.defaultAction
     ELSE listener.rules[CHOOSE i \in matching :
            \A j \in matching : listener.rules[i].priority <= listener.rules[j].priority].action

\* position of the first "}" of s, 0 when there is none
RECURSIVE ClosingBrace(_, _)
ClosingBrace(s, from) ==
  IF from > Len(s) THEN 0
  ELSE IF SubSeq(s, from, from) = "}" THEN from
  ELSE ClosingBrace(s, from + 1)

DigitValue(c) == CHOOSE d \in 0..9 : SubSeq("0123456789", d + 1, d + 1) = c

\* path[n:] with n a digit
IsPathSlice(keyword) ==
  /\ Len(keyword) = 8
  /\ SubSeq(keyword, 1, 5) = "path["
  /\ \E d \in 0..9 : SubSeq("0123456789", d + 1, d + 1) = SubSeq(keyword, 6, 6)
  /\ SubSeq(keyword, 7, 8) = ":]"

\* The load balancer replaces the reserved keywords host, path, port,
\* protocol and query.  The redirects of the path-based stack write
\* path[4:] and path[3:], which is not one of them: the slice is either
\* taken as the comments beside them say, or the text is left as written.
RedirectDialects == {"slice", "as-written"}

ExpandKeyword(keyword, written, request, dialect) ==
  CASE keyword = "host" -> request.host
    [] keyword = "path" -> request.path
    [] keyword = "port" -> request.port
    [] keyword = "protocol" -> request.protocol
    [] keyword = "query" -> request.query
    [] OTHER -> IF IsPathSlice(keyword) /\ dialect = "slice"
                THEN SubSeq(request.path, DigitValue(SubSeq(keyword, 6, 6)) + 1,
                            Len(request.path))
                ELSE written

RECURSIVE ExpandTemplate(_, _, _)
ExpandTemplate(template, request, dialect) ==
  IF template = "" THEN ""
  ELSE IF Len(template) >= 2 /\ SubSeq(template, 1, 2) = "#{"
          /\ ClosingBrace(template, 3) > 0
       THEN LET close == ClosingBrace(template, 3)
            IN ExpandKeyword(SubSeq(template, 3, close - 1),
                             SubSeq(template, 1, close), request, dialect)
                 \o ExpandTemplate(SubSeq(template, close + 1, Len(template)),
                                   request, dialect)
       ELSE SubSeq(template, 1, 1) \o ExpandTemplate(StringTail(template), request, dialect)

\* a component the redirect leaves out keeps the value of the request
RedirectComponent(action, field, keyword) ==
  IF field \in DOMAIN action THEN action[field] ELSE keyword

\* the Location of a redirect action
RedirectLocation(action, request, dialect) ==
  [protocol |-> action.protocol,
   port |-> action.port,
   host |-> ExpandTemplate(RedirectComponent(action, "host", "#{host}"), request, dialect),
   path |-> ExpandTemplate(RedirectComponent(action, "path", "#{path}"), request, dialect),
   query |-> ExpandTemplate(RedirectComponent(action, "query", "#{query}"), request, dialect)]

\* what a listener answers: the target group a forward delivers to, or
\* the status and Location of a redirect
ListenerResponse(stack, listener, request, dialect) ==
  LET action == ListenerActionFor(listener, request)
  IN IF action.type = "forward"
     THEN [type |-> "forward",
           targetGroup |-> action.targetGroups[1],
           port |-> stack.targetGroups[action.targetGroups[1]].port]
     ELSE [type |-> "redirect",
           statusCode |-> action.statusCode,
           location |-> RedirectLocation(action, request, dialect)]

\* s up to its first "#": a client keeps the fragment of a URL to itself
RECURSIVE BeforeFragment(_)
BeforeFragment(s) ==
  IF s = "" \/ SubSeq(s, 1, 1) = "#" THEN ""
  ELSE SubSeq(s, 1, 1) \o BeforeFragment(StringTail(s))

\* the request a client sends for a Location
RequestForLocation(location) ==
  [protocol |-> location.protocol,
   port |-> location.port,
   host |-> location.host,
   path |-> BeforeFragment(location.path),
   query |-> IF BeforeFragment(location.path) = location.path
             THEN BeforeFragment(location.query) ELSE ""]

\* redirects a client follows for one request
MaxRedirects == 4

RequestHosts ==
  {"app.cloud.example.com", "eu.admin.cloud.example.com",
   "eu.ui.cloud.example.com", "admin.cloud.example.com",
   "ui.admin.cloud.example.com", "admin.ui.cloud.example.com"}

RequestPaths ==
  {"/", "/health", "/api", "/api/", "/api/users", "/api/ui/x", "/apis",
   "/ui", "/ui/", "/ui/home", "/api-internal", "/api-internal/users",
   "/ui-internal/home"}

RequestQueries == {"", "page=2"}

Requests ==
  {[protocol |-> l.protocol, port |-> l.port, host |-> h, path |-> p, query |-> q] :
     l \in {[protocol |-> "HTTP", port |-> "80"], [protocol |-> "HTTPS", port |-> "443"]},
     h \in RequestHosts, p \in RequestPaths, q \in RequestQueries}

InitRouting ==
  /\ context = <<>>
  /\ pc = "construct"
  /\ environmentName = "dev"
  /\ environmentConfig = DevConfig
  /\ regionValues = ObjectValues(DevConfig.regions)
  /\ stackType = ""
  /\ idx = 0
  /\ stacks = <<>>
  /\ error = NoError
  /\ table = environments
  /\ http = NoRequest
  /\ sh = NotRun
  /\ created = {}

\* a client sends a request to the load balancer of the stack
SendRequest ==
  /\ stacks # <<>>
  /\ http = NoRequest
  /\ \E request \in Requests :
       http' = [state |-> "sent", request |-> request, hops |-> <<>>]
  /\ UNCHANGED <<context, pc, environmentName, environmentConfig, stackType,
                 regionValues, idx, stacks, error, table, sh, created>>

\* the port-80 listener answers
HttpListenerReceive ==
  /\ http.state = "sent"
  /\ http.request.protocol = "HTTP"
  /\ \E dialect \in RedirectDialects :
       LET response == ListenerResponse(stacks[1], stacks[1].httpListener,
                                        http.request, dialect)
       IN http' = [http EXCEPT
                     !.state = IF response.type = "forward" THEN "forwarded"
                               ELSE "redirected",
                     !.hops = Append(@, [listener |-> "http",
                                         request |-> http.request,
                                         response |-> response])]
  /\ UNCHANGED <<context, pc, environmentName, environmentConfig, stackType,
                 regionValues, idx, stacks, error, table, sh, created>>

\* the port-443 listener answers
HttpsListenerReceive ==
  /\ http.state = "sent"
  /\ http.request.protocol = "HTTPS"
  /\ \E dialect \in RedirectDialects :
       LET response == ListenerResponse(stacks[1], stacks[1].httpsListener,
                                        http.request, dialect)
       IN http' = [http EXCEPT
                     !.state = IF response.type = "forward" THEN "forwarded"
                               ELSE "redirected",
                     !.hops = Append(@, [listener |-> "https",
                                         request |-> http.request,
                                         response |-> response])]
  /\ UNCHANGED <<context, pc, environmentName, environmentConfig, stackType,
                 regionValues, idx, stacks, error, table, sh, created>>

\* the client follows the redirect it was answered with
ClientFollowRedirect ==
  /\ http.state = "redirected"
  /\ Len(http.hops) <= MaxRedirects
  /\ http' = [http EXCEPT
                !.state = "sent",
                !.request = RequestForLocation(http.hops[Len(http.hops)].response.location)]
  /\ UNCHANGED <<context, pc, environmentName, environmentConfig, stackType,
                 regionValues, idx, stacks, error, table, sh, created>>

NextRouting ==
  \/ ConstructEcsServiceStack
  \/ ConstructEcsServiceCfnStack
  \/ ConstructSimpleEcsServiceStack
  \/ ConstructSimpleEcsServiceStackPathBased
  \/ SendRequest
  \/ HttpListenerReceive
  \/ HttpsListenerReceive
  \/ ClientFollowRedirect

SpecRouting == InitRouting /\ [][NextRouting]_vars

----------------------------------------------------------------------------
(* scripts/deploy.sh, and the entry point run by the tool it invokes *)

\* $n: the n-th positional parameter, empty when it was not given
Positional(args, n) == IF n <= Len(args) THEN args[n] ELSE ""

\* ${n:-word}: word when the parameter is unset or empty
PositionalOrDefault(args, n, word) ==
  IF Positional(args, n) = "" THEN word ELSE Positional(args, n)

\* position of the first "=" of s at or after from, 0 when there is none
RECURSIVE EqualsSign(_, _)
EqualsSign(s, from) ==
  IF from > Len(s) THEN 0
  ELSE IF SubSeq(s, from, from) = "=" THEN from
  ELSE EqualsSign(s, from + 1)

\* the context the tool takes from its command line: each -c key=value
RECURSIVE ContextOfCommand(_)
ContextOfCommand(words) ==
  IF Len(words) < 2 THEN <<>>
  ELSE IF words[1] = "-c" /\ EqualsSign(words[2], 1) > 0
       THEN LET eq == EqualsSign(words[2], 1)
            IN ObjectSpread(<<Entry(SubSeq(words[2], 1, eq - 1),
                                    SubSeq(words[2], eq + 1, Len(words[2])))>>,
                            ContextOfCommand(SubSeq(words, 3, Len(words))))
       ELSE ContextOfCommand(Tail(words))

\* the words of the cdk command of each branch of the case statement
CdkCommand(action, environment, stackTypeParam) ==
  CASE action = "deploy" ->
         <<"npx", "cdk", "deploy", "--all", "-c", "environment=" \o environment>>
           \o stackTypeParam \o <<"--require-approval", "never">>
    [] action = "diff" ->
         <<"npx", "cdk", "diff", "-c", "environment=" \o environment>> \o stackTypeParam
    [] action = "destroy" ->
         <<"npx", "cdk", "destroy", "--all", "-c", "environment=" \o environment>>
           \o stackTypeParam \o <<"--force">>
    [] action = "synth" ->
         <<"npx", "cdk", "synth", "-c", "environment=" \o environment>> \o stackTypeParam

DeployActions == {"deploy", "diff", "destroy", "synth"}

\* command lines tried: up to three arguments
DeployArguments ==
  LET environmentArgs == {"", "dev", "qa", "prod", "local", "staging"}
      actionArgs == {"", "deploy", "diff", "destroy", "synth", "bootstrap"}
      stackTypeArgs == {"", "high-level", "cfn", "simple"}
  IN {<<>>} \cup {<<e>> : e \in environmentArgs}
       \cup {<<e, a>> : e \in environmentArgs, a \in actionArgs}
       \cup {<<e, a, t>> : e \in environmentArgs, a \in actionArgs, t \in stackTypeArgs}

\* exit statuses of the tool tried
ToolFailures == {1, 2}

InitDeploy ==
  /\ context = <<>>
  /\ pc = "idle"
  /\ environmentName = ""
  /\ environmentConfig = Undefined
  /\ stackType = ""
  /\ regionValues = <<>>
  /\ idx = 0
  /\ stacks = <<>>
  /\ error = NoError
  /\ table = environments
  /\ http = NoRequest
  /\ created = {}
  /\ \E args \in DeployArguments :
       sh = [state |-> "start", args |-> args, ENVIRONMENT |-> "", ACTION_ARG |-> "",
             STACK_TYPE |-> "", STACK_TYPE_PARAM |-> <<>>, invocations |-> <<>>,
             toolStatus |-> <<>>, exit |-> <<>>]

\* lines 11-13 (ACTION_ARG is the variable ACTION of the script)
ShReadArguments ==
  /\ sh.state = "start"
  /\ sh' = [sh EXCEPT !.state = "checkGiven",
                      !.ENVIRONMENT = Positional(sh.args, 1),
                      !.ACTION_ARG = PositionalOrDefault(sh.args, 2, "deploy"),
                      !.STACK_TYPE = PositionalOrDefault(sh.args, 3, "high-level")]
  /\ UNCHANGED <<context, pc, environmentName, environmentConfig, stackType,
                 regionValues, idx, stacks, error, table, http, created>>

\* lines 15-21
ShCheckEnvironmentGiven ==
  /\ sh.state = "checkGiven"
  /\ sh' = IF sh.ENVIRONMENT = ""
           THEN [sh EXCEPT !.state = "exited", !.exit = <<1>>]
           ELSE [sh EXCEPT !.state = "checkEnvironment"]
  /\ UNCHANGED <<context, pc, environmentName, environmentConfig, stackType,
                 regionValues, idx, stacks, error, table, http, created>>

\* lines 23-26
ShCheckEnvironment ==
  /\ sh.state = "checkEnvironment"
  /\ sh' = IF sh.ENVIRONMENT # "dev" /\ sh.ENVIRONMENT # "qa" /\ sh.ENVIRONMENT # "prod"
           THEN [sh EXCEPT !.state = "exited", !.exit = <<1>>]
           ELSE [sh EXCEPT !.state = "checkStackType"]
  /\ UNCHANGED <<context, pc, environmentName, environmentConfig, stackType,
                 regionValues, idx, stacks, error, table, http, created>>

\* as ShCheckStackType, without the exit
ShCheckStackTypeNoExit ==
  /\ sh.state = "checkStackType"
  /\ sh' = [sh EXCEPT !.state = "stackTypeParam"]
  /\ UNCHANGED <<context, pc, environmentName, environmentConfig, stackType,
                 regionValues, idx, stacks, error, table, http, created>>

\* lines 28-31
ShCheckStackType ==
  /\ sh.state = "checkStackType"
  /\ sh' = IF sh.STACK_TYPE # "high-level" /\ sh.STACK_TYPE # "cfn"
           THEN [sh EXCEPT !.state = "exited", !.exit = <<1>>]
           ELSE [sh EXCEPT !.state = "stackTypeParam"]
  /\ UNCHANGED <<context, pc, environmentName, environmentConfig, stackType,
                 regionValues, idx, stacks, error, table, http, created>>

\* as ShStackTypeParam, with the parameter left empty
ShStackTypeParamEmpty ==
  /\ sh.state = "stackTypeParam"
  /\ sh' = [sh EXCEPT !.state = "case", !.STACK_TYPE_PARAM = <<>>]
  /\ UNCHANGED <<context, pc, environmentName, environmentConfig, stackType,
                 regionValues, idx, stacks, error, table, http, created>>

\* lines 33-36: the parameter is expanded unquoted, as two words
ShStackTypeParam ==
  /\ sh.state = "stackTypeParam"
  /\ sh' = [sh EXCEPT !.state = "case",
                      !.STACK_TYPE_PARAM = IF sh.STACK_TYPE = "cfn"
                                           THEN <<"-c", "stackType=cfn">>
                                           ELSE <<>>]
  /\ UNCHANGED <<context, pc, environmentName, environmentConfig, stackType,
                 regionValues, idx, stacks, error, table, http, created>>

\* lines 40-57: the branch of the case statement starts the tool, which
\* runs the entry point with the context of its command line; any other
\* action ends the script
ShCase ==
  /\ sh.state = "case"
  /\ IF sh.ACTION_ARG \in DeployActions
     THEN LET command == CdkCommand(sh.ACTION_ARG, sh.ENVIRONMENT, sh.STACK_TYPE_PARAM)
          IN /\ sh' = [sh EXCEPT !.state = "tool",
                                 !.invocations = Append(@, command)]
             /\ context' = ContextOfCommand(command)
             /\ pc' = "start"
     ELSE /\ sh' = [sh EXCEPT !.state = "exited", !.exit = <<1>>]
          /\ UNCHANGED <<context, pc>>
  /\ UNCHANGED <<environmentName, environmentConfig, stackType,
                 regionValues, idx, stacks, error, table, http, created>>

\* the tool ends: with a failure when the entry point threw, and with
\* success or a failure of its own once the stacks are built
ToolExit ==
  /\ sh.state = "tool"
  /\ pc \in {"done", "failed"}
  /\ \E status \in {0} \cup ToolFailures :
       /\ pc = "failed" => status # 0
       /\ sh' = [sh EXCEPT !.state = "toolExited", !.toolStatus = <<status>>]
  /\ UNCHANGED <<context, pc, environmentName, environmentConfig, stackType,
                 regionValues, idx, stacks, error, table, http, created>>

\* as ShExit, with the status of the tool ignored
ShExitZero ==
  /\ sh.state = "toolExited"
  /\ sh' = [sh EXCEPT !.state = "exited", !.exit = <<0>>]
  /\ UNCHANGED <<context, pc, environmentName, environmentConfig, stackType,
                 regionValues, idx, stacks, error, table, http, created>>

\* line 9 and the end of the script: set -e ends the script with the
\* status of a failed command, and the last command gives the status
ShExit ==
  /\ sh.state = "toolExited"
  /\ sh' = [sh EXCEPT !.state = "exited", !.exit = sh.toolStatus]
  /\ UNCHANGED <<context, pc, environmentName, environmentConfig, stackType,
                 regionValues, idx, stacks, error, table, http, created>>

NextDeploy ==
  \/ ShReadArguments
  \/ ShCheckEnvironmentGiven
  \/ ShCheckEnvironment
  \/ ShCheckStackType
  \/ ShStackTypeParam
  \/ ShCase
  \/ ReadEnvironment
  \/ ReadStackType
  \/ CheckEnvironment
  \/ CheckStackType
  \/ ListRegions
  \/ BuildStack
  \/ Finish
  \/ ToolExit
  \/ ShExit

SpecDeploy == InitDeploy /\ [][NextDeploy]_vars

----------------------------------------------------------------------------
(* scripts/localstack.sh *)

\* an external command: under set -e a non-zero status ends the script
Tool(cmd) == [op |-> "tool", cmd |-> cmd]

\* a call of one of the functions of the script
Call(name) == [op |-> "call", cmd |-> name]

\* if ! check_localstack; then ...; fi
IfNotRunning(then) == [op |-> "if", cmd |-> "check_localstack", then |-> then]

\* local max_attempts=30
max_attempts == 30

\* the commands of each branch of case $COMMAND, in order (echo, cd
\* "$PROJECT_DIR" and export do not fail and are left out)
CaseCommands(COMMAND) ==
  CASE COMMAND = "start" ->
         <<Tool("docker-compose up -d localstack"), Call("wait_for_localstack")>>
    [] COMMAND = "start-ui" ->
         <<Tool("docker-compose --profile ui up -d"), Call("wait_for_localstack")>>
    [] COMMAND = "stop" -> <<Tool("docker-compose down")>>
    [] COMMAND = "restart" ->
         <<Tool("docker-compose restart localstack"), Call("wait_for_localstack")>>
    [] COMMAND = "status" -> <<Call("status")>>
    [] COMMAND = "logs" -> <<Tool("docker-compose logs -f localstack")>>
    [] COMMAND = "init" ->
         <<IfNotRunning(<<Tool("docker-compose up -d localstack"),
                          Call("wait_for_localstack")>>),
           Call("init_localstack")>>
    [] COMMAND = "build" -> <<Call("build_sample_app")>>
    [] COMMAND = "deploy" ->
         <<IfNotRunning(<<Tool("docker-compose up -d localstack"),
                          Call("wait_for_localstack"),
                          Call("init_localstack")>>),
           Call("build_sample_app"),
           Tool("source .env.localstack"),
           Tool("cdklocal deploy --all -c environment=local --require-approval never")>>
    [] COMMAND = "destroy" ->
         <<Tool("source .env.localstack"),
           Tool("cdklocal destroy --all -c environment=local --force")>>
    [] OTHER -> <<>>

\* the commands of build_sample_app; npm install runs when there is no
\* package-lock.json
BuildCommands(lockFile) ==
  <<Tool("cd localstack/sample-app")>>
  \o (IF lockFile THEN <<>> ELSE <<Tool("npm install")>>)
  \o <<Tool("docker build -t mcp-gw-sample-app:latest ."), Call("build done")>>

\* first arguments tried, no argument included
LocalstackArguments ==
  {<<>>} \cup {<<c>> : c \in {"start", "start-ui", "stop", "restart", "status", "logs",
                              "init", "build", "deploy", "destroy", "help", "bogus"}}

InitLocalstack ==
  /\ context = <<>>
  /\ pc = "idle"
  /\ environmentName = ""
  /\ environmentConfig = Undefined
  /\ stackType = ""
  /\ regionValues = <<>>
  /\ idx = 0
  /\ stacks = <<>>
  /\ error = NoError
  /\ table = environments
  /\ http = NoRequest
  /\ created = {}
  /\ \E args \in LocalstackArguments :
       sh = [state |-> "start", args |-> args, COMMAND |-> "", todo |-> <<>>,
             attempt |-> 0, healthChecks |-> <<>>, waitChecks |-> <<>>,
             waitReturn |-> <<>>, ran |-> <<>>, abortedBy |-> <<>>, exit |-> <<>>]

\* COMMAND=${1:-help} and the selection of the branch of case $COMMAND
LsReadCommand ==
  /\ sh.state = "start"
  /\ LET COMMAND == PositionalOrDefault(sh.args, 1, "help")
     IN sh' = [sh EXCEPT !.state = "run", !.COMMAND = COMMAND,
                         !.todo = CaseCommands(COMMAND)]
  /\ UNCHANGED <<context, pc, environmentName, environmentConfig, stackType,
                 regionValues, idx, stacks, error, table, http, created>>

\* an external command runs; a non-zero status ends the script with it
LsRunTool ==
  /\ sh.state = "run"
  /\ sh.todo # <<>>
  /\ Head(sh.todo).op = "tool"
  /\ \E status \in {0} \cup ToolFailures :
       sh' = IF status = 0
             THEN [sh EXCEPT !.todo = Tail(@), !.ran = Append(@, Head(sh.todo).cmd)]
             ELSE [sh EXCEPT !.state = "exited", !.ran = Append(@, Head(sh.todo).cmd),
                             !.abortedBy = <<Head(sh.todo).cmd>>, !.exit = <<status>>]
  /\ UNCHANGED <<context, pc, environmentName, environmentConfig, stackType,
                 regionValues, idx, stacks, error, table, http, created>>

\* if ! check_localstack: the body runs when the health check fails
LsIfNotRunning ==
  /\ sh.state = "run"
  /\ sh.todo # <<>>
  /\ Head(sh.todo).op = "if"
  /\ \E healthy \in BOOLEAN :
       sh' = [sh EXCEPT !.healthChecks = Append(@, healthy),
                        !.todo = IF healthy THEN Tail(@) ELSE Head(@).then \o Tail(@)]
  /\ UNCHANGED <<context, pc, environmentName, environmentConfig, stackType,
                 regionValues, idx, stacks, error, table, http, created>>

\* the status branch: the health check decides what is printed only
LsStatus ==
  /\ sh.state = "run"
  /\ sh.todo # <<>>
  /\ Head(sh.todo) = Call("status")
  /\ \E healthy \in BOOLEAN :
       sh' = [sh EXCEPT !.healthChecks = Append(@, healthy), !.todo = Tail(@)]
  /\ UNCHANGED <<context, pc, environmentName, environmentConfig, stackType,
                 regionValues, idx, stacks, error, table, http, created>>

\* wait_for_localstack is entered: local attempt=1
LsWaitEnter ==
  /\ sh.state = "run"
  /\ sh.todo # <<>>
  /\ Head(sh.todo) = Call("wait_for_localstack")
  /\ sh' = [sh EXCEPT !.state = "waitTest", !.attempt = 1,
                      !.ran = Append(@, "wait_for_localstack")]
  /\ UNCHANGED <<context, pc, environmentName, environmentConfig, stackType,
                 regionValues, idx, stacks, error, table, http, created>>

\* as WaitLoopTest, with wait_for_localstack || true at the call
WaitLoopTestNoAbort ==
  /\ sh.state = "waitTest"
  /\ sh' = IF sh.attempt <= max_attempts
           THEN [sh EXCEPT !.state = "waitCheck"]
           ELSE [sh EXCEPT !.state = "run", !.todo = Tail(@), !.waitReturn = <<1>>]
  /\ UNCHANGED <<context, pc, environmentName, environmentConfig, stackType,
                 regionValues, idx, stacks, error, table, http, created>>

\* as WaitLoopTest, with -lt in the place of -le
WaitLoopTestStrict ==
  /\ sh.state = "waitTest"
  /\ sh' = IF sh.attempt < max_attempts
           THEN [sh EXCEPT !.state = "waitCheck"]
           ELSE [sh EXCEPT !.state = "exited", !.waitReturn = <<1>>,
                           !.abortedBy = <<"wait_for_localstack">>, !.exit = <<1>>]
  /\ UNCHANGED <<context, pc, environmentName, environmentConfig, stackType,
                 regionValues, idx, stacks, error, table, http, created>>

\* while [ $attempt -le $max_attempts ]; after the loop return 1, which ends
\* the script under set -e
WaitLoopTest ==
  /\ sh.state = "waitTest"
  /\ sh' = IF sh.attempt <= max_attempts
           THEN [sh EXCEPT !.state = "waitCheck"]
           ELSE [sh EXCEPT !.state = "exited", !.waitReturn = <<1>>,
                           !.abortedBy = <<"wait_for_localstack">>, !.exit = <<1>>]
  /\ UNCHANGED <<context, pc, environmentName, environmentConfig, stackType,
                 regionValues, idx, stacks, error, table, http, created>>

\* if check_localstack; then return 0; fi
WaitCheck ==
  /\ sh.state = "waitCheck"
  /\ \E healthy \in BOOLEAN :
       sh' = IF healthy
             THEN [sh EXCEPT !.state = "run", !.todo = Tail(@), !.waitReturn = <<0>>,
                             !.healthChecks = Append(@, healthy),
                             !.waitChecks = Append(@, healthy)]
             ELSE [sh EXCEPT !.state = "waitSleep",
                             !.healthChecks = Append(@, healthy),
                             !.waitChecks = Append(@, healthy)]
  /\ UNCHANGED <<context, pc, environmentName, environmentConfig, stackType,
                 regionValues, idx, stacks, error, table, http, created>>

\* the status of (( expression )): 1 when the value is 0
ArithmeticStatus(value) == IF value = 0 THEN 1 ELSE 0

\* sleep 5; ((attempt++)): the value of attempt++ is the one before the
\* increment, and a status of 1 ends the script under set -e
WaitSleepIncrement ==
  /\ sh.state = "waitSleep"
  /\ sh' = IF ArithmeticStatus(sh.attempt) = 0
           THEN [sh EXCEPT !.state = "waitTest", !.attempt = @ + 1]
           ELSE [sh EXCEPT !.state = "exited", !.attempt = @ + 1,
                           !.abortedBy = <<"((attempt++))">>, !.exit = <<1>>]
  /\ UNCHANGED <<context, pc, environmentName, environmentConfig, stackType,
                 regionValues, idx, stacks, error, table, http, created>>

\* init_localstack: every aws command is followed by || true
LsInitLocalstack ==
  /\ sh.state = "run"
  /\ sh.todo # <<>>
  /\ Head(sh.todo) = Call("init_localstack")
  /\ sh' = [sh EXCEPT !.todo = Tail(@), !.ran = Append(@, "init_localstack")]
  /\ UNCHANGED <<context, pc, environmentName, environmentConfig, stackType,
                 regionValues, idx, stacks, error, table, http, created>>

\* build_sample_app is entered
LsBuildEnter ==
  /\ sh.state = "run"
  /\ sh.todo # <<>>
  /\ Head(sh.todo) = Call("build_sample_app")
  /\ \E lockFile \in BOOLEAN :
       sh' = [sh EXCEPT !.todo = BuildCommands(lockFile) \o Tail(@),
                        !.ran = Append(@, "build_sample_app")]
  /\ UNCHANGED <<context, pc, environmentName, environmentConfig, stackType,
                 regionValues, idx, stacks, error, table, http, created>>

\* build_sample_app returns: "Sample application built successfully!"
LsBuildDone ==
  /\ sh.state = "run"
  /\ sh.todo # <<>>
  /\ Head(sh.todo) = Call("build done")
  /\ sh' = [sh EXCEPT !.todo = Tail(@), !.ran = Append(@, "build done")]
  /\ UNCHANGED <<context, pc, environmentName, environmentConfig, stackType,
                 regionValues, idx, stacks, error, table, http, created>>

\* the end of the script: the status of the last command, which succeeded
LsExit ==
  /\ sh.state = "run"
  /\ sh.todo = <<>>
  /\ sh' = [sh EXCEPT !.state = "exited", !.exit = <<0>>]
  /\ UNCHANGED <<context, pc, environmentName, environmentConfig, stackType,
                 regionValues, idx, stacks, error, table, http, created>>

NextLocalstack ==
  \/ LsReadCommand
  \/ LsRunTool
  \/ LsIfNotRunning
  \/ LsStatus
  \/ LsWaitEnter
  \/ WaitLoopTest
  \/ WaitCheck
  \/ WaitSleepIncrement
  \/ LsInitLocalstack
  \/ LsBuildEnter
  \/ LsBuildDone
  \/ LsExit

SpecLocalstack == InitLocalstack /\ [][NextLocalstack]_vars

----------------------------------------------------------------------------
(* The provisioning engine creating the resources of an EcsServiceCfnStack *)

InitProvision ==
  /\ context = <<>>
  /\ pc = "construct"
  /\ environmentName = "qa"
  /\ environmentConfig = QaConfig
  /\ regionValues = ObjectValues(QaConfig.regions)
  /\ stackType = "cfn"
  /\ idx = 0
  /\ stacks = <<>>
  /\ error = NoError
  /\ table = environments
  /\ http = NoRequest
  /\ sh = NotRun
  /\ created = {}

\* the engine creates a resource once everything it depends on exists
CreateResource ==
  /\ stacks # <<>>
  /\ \E resource \in DOMAIN stacks[1].dependsOn :
       /\ resource \notin created
       /\ stacks[1].dependsOn[resource] \subseteq created
       /\ created' = created \cup {resource}
  /\ UNCHANGED <<context, pc, environmentName, environmentConfig, stackType,
                 regionValues, idx, stacks, error, table, http, sh>>

NextProvision ==
  \/ ConstructEcsServiceCfnStack
  \/ CreateResource

SpecProvision == InitProvision /\ [][NextProvision]_vars

----------------------------------------------------------------------------
(* Properties of the entry point *)

SuppliedEnvironment == TryGetContext(context, "environment")

SuppliedStackType == TryGetContext(context, "stackType")

EnvironmentNames == ObjectKeys(environments)

\* the run is still in its validation, or has thrown: no stack, no fan-out
NothingBuilt == stacks = <<>> /\ pc \notin {"forEach", "done"}

\* C1: a supplied environment name (a non-empty one, the empty name being the
\* case of C3) that is not a key of the environment table makes the run fail
\* with the environment-not-found error, and no stack is constructed.
C1_UnknownEnvironmentNotFound ==
  (SuppliedEnvironment \notin {<<>>, <<"">>} /\ SuppliedEnvironment[1] \notin EnvironmentNames)
    => /\ NothingBuilt
       /\ pc = "failed" => error = EnvironmentNotFound(SuppliedEnvironment[1])

\* C2 as stated: with a valid environment name, a supplied stack mode that is
\* neither 'high-level' nor 'cfn' makes the run fail with the unsupported-mode
\* error, and no stack is constructed.
C2_UnknownModeUnsupported ==
  (/\ SuppliedEnvironment # <<>> /\ SuppliedEnvironment[1] \in EnvironmentNames
   /\ SuppliedStackType # <<>> /\ SuppliedStackType[1] \notin SupportedStackTypes)
    => /\ NothingBuilt
       /\ pc = "failed" => error = StackTypeNotSupported(SuppliedStackType[1])

\* C2 amended: with a valid environment name, a supplied non-empty stack mode
\* that is neither 'high-level' nor 'cfn' makes the run fail with the
\* unsupported-mode error, and no stack is constructed.
C2_NonEmptyUnknownModeUnsupported ==
  (/\ SuppliedEnvironment # <<>> /\ SuppliedEnvironment[1] \in EnvironmentNames
   /\ SuppliedStackType # <<>> /\ SuppliedStackType[1] # ""
   /\ SuppliedStackType[1] \notin SupportedStackTypes)
    => /\ NothingBuilt
       /\ pc # "listRegions"
       /\ pc = "failed" => error = StackTypeNotSupported(SuppliedStackType[1])

C2_Witness ==
  /\ SuppliedEnvironment = <<"dev">>
  /\ SuppliedStackType = <<"bogus-mode">>
  /\ pc = "failed"
  /\ error = StackTypeNotSupported("bogus-mode")
  /\ stacks = <<>>

\* C3 as stated: for every input, absent and empty values included, a value
\* that is not a recognised environment or mode makes the run fail; there is
\* no fallback to a default environment or mode.
C3_NoFallback ==
  (\/ SuppliedEnvironment = <<>>
   \/ SuppliedEnvironment[1] \notin EnvironmentNames
   \/ SuppliedStackType = <<>>
   \/ SuppliedStackType[1] \notin SupportedStackTypes)
    => NothingBuilt

\* C3 amended: an absent or empty environment name falls back to 'dev' and an
\* absent or empty stack mode to 'high-level'; every non-empty supplied value
\* that is not a recognised environment or mode makes the run fail, and no
\* stack is constructed.
C3_FallbackOnlyWhenAbsentOrEmpty ==
  /\ (pc # "start" /\ SuppliedEnvironment \in {<<>>, <<"">>}) => environmentName = "dev"
  /\ (pc \notin {"start", "readStackType"} /\ SuppliedStackType \in {<<>>, <<"">>})
       => stackType = "high-level"
  /\ (\/ SuppliedEnvironment \notin {<<>>, <<"">>}
         /\ SuppliedEnvironment[1] \notin EnvironmentNames
      \/ SuppliedStackType \notin {<<>>, <<"">>}
         /\ SuppliedStackType[1] \notin SupportedStackTypes)
       => NothingBuilt

C3_Witness ==
  /\ SuppliedEnvironment = <<"">>
  /\ SuppliedStackType = <<>>
  /\ pc = "done"
  /\ Len(stacks) = 1
  /\ stacks[1].class = "EcsServiceStack"
  /\ stacks[1].environmentConfig.environment = "dev"

\* C4: for a valid environment and mode the run builds exactly one stack per
\* region of the environment, in order, each given the environment's
\* configuration, its own region's configuration and that region as target,
\* all of the class the mode selects; a run that ends has built either no
\* stack (it failed) or one per region.
C4_OneStackPerRegion ==
  /\ pc = "failed" => stacks = <<>>
  /\ pc = "done" =>
       /\ environmentName \in EnvironmentNames
       /\ stackType \in SupportedStackTypes
       /\ LET cfg == GetOwn(environments, environmentName)
              regions == ObjectValues(cfg.regions)
          IN /\ Len(stacks) = Len(regions)
             /\ \A i \in 1..Len(stacks) :
                  /\ stacks[i].environmentConfig = cfg
                  /\ stacks[i].regionConfig = regions[i]
                  /\ stacks[i].env.region = regions[i].region
                  /\ stacks[i].class = IF stackType = "cfn" THEN "EcsServiceCfnStack"
                                       ELSE "EcsServiceStack"
  /\ (/\ pc \notin {"start", "readStackType"}
      /\ environmentName \in EnvironmentNames
      /\ stackType \in SupportedStackTypes)
       => pc # "failed"

C4_Witness ==
  /\ pc = "done"
  /\ environmentName = "prod"
  /\ stackType = "cfn"
  /\ Len(stacks) = 2
  /\ stacks[2].env.region = "us-west-2"

\* C25: when both the environment name and the stack mode are invalid (a
\* non-empty name that is no key of the table, a non-empty mode that is
\* neither 'high-level' nor 'cfn'), the error reported is the environment
\* error, and no stack is constructed: the environment-name check comes
\* before the stack-mode check and both before the first stack
C25_EnvironmentErrorFirst ==
  (/\ SuppliedEnvironment \notin {<<>>, <<"">>}
   /\ SuppliedEnvironment[1] \notin EnvironmentNames
   /\ SuppliedStackType \notin {<<>>, <<"">>}
   /\ SuppliedStackType[1] \notin SupportedStackTypes)
    => /\ NothingBuilt
       /\ pc = "failed" => error = EnvironmentNotFound(SuppliedEnvironment[1])

----------------------------------------------------------------------------
(* Properties of the environment table and of the stacks built from it *)

\* the position of the first ':' of s at or after from, Len(s) + 1 when none
NextColon(s, from) ==
  IF \E i \in from..Len(s) : SubSeq(s, i, i) = ":"
  THEN CHOOSE i \in from..Len(s) :
         /\ SubSeq(s, i, i) = ":"
         /\ \A j \in from..(i - 1) : SubSeq(s, j, j) # ":"
  ELSE Len(s) + 1

\* the n-th ':'-separated field of an ARN:
\* arn:partition:service:region:account:resource
RECURSIVE ArnField(_, _)
ArnField(arn, n) ==
  LET c == NextColon(arn, 1)
  IN IF n = 1 THEN SubSeq(arn, 1, c - 1)
     ELSE IF c > Len(arn) THEN ""
     ELSE ArnField(SubSeq(arn, c + 1, Len(arn)), n - 1)

ArnRegion(arn) == ArnField(arn, 4)

CapacityOrdered(cfg) ==
  cfg.minCapacity <= cfg.desiredCount /\ cfg.desiredCount <= cfg.maxCapacity

\* C5: every environment of the table, and so the configuration the entry
\* point resolves, has minCapacity <= desiredCount <= maxCapacity.
C5_CapacityOrdered ==
  /\ \A i \in 1..Len(environments) : CapacityOrdered(environments[i].value)
  /\ "regions" \in DOMAIN environmentConfig => CapacityOrdered(environmentConfig)
  /\ \A i \in 1..Len(stacks) : CapacityOrdered(stacks[i].environmentConfig)

C5_Witness ==
  /\ pc = "done"
  /\ environmentConfig = GetOwn(environments, "prod")
  /\ Len(stacks) = 2
  /\ stacks[1].service.desiredCount = environmentConfig.desiredCount

CertificateInRegion(entry) ==
  /\ entry.value.region = entry.key
  /\ ArnRegion(entry.value.certificateArn) = entry.value.region

\* C6: in every RegionConfig of the table, and so in every one handed to a
\* stack, the region encoded in certificateArn is the region field, which is
\* the key the RegionConfig is stored under.
C6_CertificateInRegion ==
  /\ \A i \in 1..Len(environments) :
       \A j \in 1..Len(environments[i].value.regions) :
         CertificateInRegion(environments[i].value.regions[j])
  /\ \A i \in 1..Len(regionValues) :
       ArnRegion(regionValues[i].certificateArn) = regionValues[i].region
  /\ \A i \in 1..Len(stacks) :
       \A j \in 1..Len(stacks[i].httpsListener.certificates) :
         ArnRegion(stacks[i].httpsListener.certificates[j]) = stacks[i].env.region

C6_Witness ==
  /\ pc = "done"
  /\ environmentName = "prod"
  /\ Len(stacks) = 2
  /\ stacks[2].env.region = "us-west-2"
  /\ ArnRegion(stacks[2].httpsListener.certificates[1]) = "us-west-2"

SystemKeys == {"ENVIRONMENT", "REGION"}

\* the number of entries of a rendered environment that carry the name n
Occurrences(environment, n) ==
  Cardinality({i \in 1..Len(environment) : environment[i].name = n})

SystemVariablesIntact(stack) ==
  LET environment == stack.container.environment
  IN /\ Occurrences(environment, "ENVIRONMENT") = 1
     /\ Occurrences(environment, "REGION") = 1
     /\ \A i \in 1..Len(environment) :
          /\ environment[i].name = "ENVIRONMENT"
               => environment[i].value = stack.environmentConfig.environment
          /\ environment[i].name = "REGION"
               => environment[i].value = stack.regionConfig.region

\* C7: whatever the custom containerEnvironmentVariables are, also when they
\* define ENVIRONMENT or REGION, the container environment of every stack
\* variant has ENVIRONMENT = environmentConfig.environment and
\* REGION = regionConfig.region, each exactly once.
C7_SystemVariablesNotOverridable ==
  \A i \in 1..Len(stacks) : SystemVariablesIntact(stacks[i])

MergedEnvironmentExact(stack) ==
  LET environment == stack.container.environment
      custom == stack.environmentConfig.containerEnvironmentVariables
  IN /\ {environment[i].name : i \in 1..Len(environment)} = SystemKeys \cup ObjectKeys(custom)
     /\ SystemKeys \cap ObjectKeys(custom) = {}
     /\ Len(environment) = 2 + Len(custom)
     /\ \A k \in ObjectKeys(custom) :
          /\ Occurrences(environment, k) = 1
          /\ \A i \in 1..Len(environment) :
               environment[i].name = k => environment[i].value = GetOwn(custom, k)

\* C8: for every environment of the table and each of its regions, the merged
\* container environment has exactly the keys ENVIRONMENT and REGION and the
\* keys of containerEnvironmentVariables, no custom key is ENVIRONMENT or
\* REGION, and every custom key keeps its configured value.
C8_MergedEnvironmentExact ==
  /\ \A i \in 1..Len(environments) :
       SystemKeys \cap ObjectKeys(environments[i].value.containerEnvironmentVariables) = {}
  /\ \A i \in 1..Len(stacks) : MergedEnvironmentExact(stacks[i])

C8_Witness ==
  /\ pc = "done"
  /\ environmentName = "prod"
  /\ stackType = "high-level"
  /\ Len(stacks) = 2
  /\ Len(stacks[2].container.environment) = 9

\* C9: resolving 'qa' yields exactly the two region entries us-east-1 and
\* us-west-2, in that order, and the run builds one stack for each, carrying
\* that region's certificate and hosted zone, scaling bounds 2 and 10 and a
\* desired count of 3.
C9_QaTwoRegions ==
  (environmentName = "qa" /\ pc \notin {"start", "failed"}) =>
    /\ [i \in 1..Len(environmentConfig.regions) |-> environmentConfig.regions[i].key]
         = <<"us-east-1", "us-west-2">>
    /\ pc \in {"forEach", "done"} =>
         [i \in 1..Len(regionValues) |-> regionValues[i].region] = <<"us-east-1", "us-west-2">>
    /\ pc = "done" => Len(stacks) = 2
    /\ \A i \in 1..Len(stacks) :
         LET region == <<"us-east-1", "us-west-2">>[i]
         IN /\ stacks[i].env.region = region
            /\ stacks[i].httpsListener.certificates
                 = <<"arn:aws:acm:" \o region \o ":123456789012:certificate/qa-xxxxxxxxx">>
            /\ stacks[i].recordSet.hostedZoneId = "Z1234567890123"
            /\ Len(stacks[i].scaling.scalableTargets) = 1
            /\ stacks[i].scaling.scalableTargets[1].minCapacity = 2
            /\ stacks[i].scaling.scalableTargets[1].maxCapacity = 10
            /\ stacks[i].service.desiredCount = 3

C9_Witness ==
  /\ environmentName = "qa"
  /\ pc = "done"
  /\ Len(stacks) = 2
  /\ stacks[1].env.region = "us-east-1"
  /\ stacks[2].env.region = "us-west-2"

\* C10: every stack the entry point builds, in either mode, declares exactly
\* two target-tracking policies on the service's task count, CPU utilisation
\* with target 70 and memory utilisation with target 80, each with scale-in
\* and scale-out cool-downs of 300 seconds, on one scalable target bounded by
\* the environment's minCapacity and maxCapacity.
C10_TwoTargetTrackingPolicies ==
  \A i \in 1..Len(stacks) :
    LET scaling == stacks[i].scaling
    IN /\ Len(scaling.scalableTargets) = 1
       /\ scaling.scalableTargets[1].scalableDimension = "ecs:service:DesiredCount"
       /\ scaling.scalableTargets[1].minCapacity = stacks[i].environmentConfig.minCapacity
       /\ scaling.scalableTargets[1].maxCapacity = stacks[i].environmentConfig.maxCapacity
       /\ Len(scaling.policies) = 2
       /\ \A j \in 1..2 :
            /\ scaling.policies[j].policyType = "TargetTrackingScaling"
            /\ scaling.policies[j].scaleInCooldown = 300
            /\ scaling.policies[j].scaleOutCooldown = 300
       /\ \E j \in 1..2 :
            /\ scaling.policies[j].predefinedMetricType = "ECSServiceAverageCPUUtilization"
            /\ scaling.policies[j].targetValue = 70
       /\ \E j \in 1..2 :
            /\ scaling.policies[j].predefinedMetricType = "ECSServiceAverageMemoryUtilization"
            /\ scaling.policies[j].targetValue = 80

C10_Witness ==
  /\ pc = "done"
  /\ \E i \in 1..Len(stacks) : stacks[i].class = "EcsServiceCfnStack"
  /\ \A i \in 1..Len(stacks) : Len(stacks[i].scaling.policies) = 2

----------------------------------------------------------------------------
(* Properties of request routing *)

PathBasedStackServes ==
  /\ stacks # <<>>
  /\ stacks[1].class = "SimpleEcsServiceStack"
  /\ stacks[1].routing = "path-pattern"

HostBasedStackServes ==
  /\ stacks # <<>>
  /\ stacks[1].class = "SimpleEcsServiceStack"
  /\ stacks[1].routing = "host-header"

HasPrefix(s, prefix) ==
  Len(s) >= Len(prefix) /\ SubSeq(s, 1, Len(prefix)) = prefix

\* the answers of the listeners so far
Hops == IF http = NoRequest THEN <<>> ELSE http.hops

\* hop i answers an HTTPS request for prefix/<rest> with a 302 to
\* internal/<rest> on the same host with the same query, and the hop
\* after it, once made, is a forward to the target group of that port
RedirectedThenForwarded(i, prefix, internal, port) ==
  LET hop == Hops[i]
  IN (hop.listener = "https" /\ HasPrefix(hop.request.path, prefix)) =>
       /\ hop.response.type = "redirect"
       /\ hop.response.statusCode = "HTTP_302"
       /\ hop.response.location =
            [protocol |-> "HTTPS", port |-> "443",
             host |-> hop.request.host,
             path |-> internal \o SubSeq(hop.request.path, Len(prefix) + 1,
                                         Len(hop.request.path)),
             query |-> hop.request.query]
       /\ i < Len(Hops) =>
            /\ Hops[i + 1].response.type = "forward"
            /\ Hops[i + 1].response.port = port

\* C11: in the path-based variant every HTTPS request for /api/<rest> is
\* answered with a 302 redirect to /api-internal/<rest> (same host, same
\* query, HTTPS on 443) and the redirected request is then forwarded to
\* the port-8001 target group; likewise /ui/<rest> is redirected to
\* /ui-internal/<rest> and then forwarded to the port-8002 target group
C11_PrefixRedirectedThenForwarded ==
  PathBasedStackServes =>
    \A i \in 1..Len(Hops) :
      /\ RedirectedThenForwarded(i, "/api/", "/api-internal/", 8001)
      /\ RedirectedThenForwarded(i, "/ui/", "/ui-internal/", 8002)

HasSuffix(s, suffix) ==
  Len(s) >= Len(suffix) /\ SubSeq(s, Len(s) - Len(suffix) + 1, Len(s)) = suffix

AdminHost(host) == HasSuffix(host, ".admin.cloud.example.com")

UiHost(host) == HasSuffix(host, ".ui.cloud.example.com")

\* C12: in the host-based variant every HTTPS request is forwarded to
\* exactly one target group, chosen by its host header alone: a host under
\* admin.cloud.example.com to port 8001, a host under ui.cloud.example.com
\* to port 8002, every other host to the default group on port 8000; and
\* no host header tried matches both rules
C12_ForwardedByHostHeader ==
  HostBasedStackServes =>
    \A i \in 1..Len(Hops) :
      Hops[i].listener = "https" =>
        LET host == Hops[i].request.host
        IN /\ Hops[i].response.type = "forward"
           /\ Hops[i].response.port = IF AdminHost(host) THEN 8001
                                       ELSE IF UiHost(host) THEN 8002
                                       ELSE 8000
           /\ ~(AdminHost(host) /\ UiHost(host))
           /\ Cardinality({j \in 1..Len(stacks[1].httpsListener.rules) :
                             RuleMatches(stacks[1].httpsListener.rules[j],
                                         Hops[i].request)}) <= 1

\* a request for a host under admin.cloud.example.com, whatever its path,
\* has been forwarded to the port-8001 target group
C12_Witness ==
  /\ HostBasedStackServes
  /\ Len(Hops) = 1
  /\ Hops[1].listener = "https"
  /\ Hops[1].request.host = "ui.admin.cloud.example.com"
  /\ Hops[1].request.path = "/api/users"
  /\ Hops[1].response = [type |-> "forward", targetGroup |-> "tg8001", port |-> 8001]

\* C13: in every stack variant the listener on port 80 has one action only,
\* a permanent (301) redirect to HTTPS on port 443 that keeps host, path
\* and query, so no plain-HTTP request is ever forwarded to a target group
C13_HttpOnlyRedirects ==
  /\ \A k \in 1..Len(stacks) :
       /\ stacks[k].httpListener.port = 80
       /\ stacks[k].httpListener.protocol = "HTTP"
       /\ stacks[k].httpListener.rules = <<>>
       /\ stacks[k].httpListener.defaultAction.type = "redirect"
       /\ stacks[k].httpListener.defaultAction.statusCode = "HTTP_301"
       /\ stacks[k].httpListener.defaultAction.protocol = "HTTPS"
       /\ stacks[k].httpListener.defaultAction.port = "443"
  /\ \A i \in 1..Len(Hops) :
       Hops[i].request.protocol = "HTTP" =>
         /\ Hops[i].listener = "http"
         /\ Hops[i].response.type = "redirect"
         /\ Hops[i].response.statusCode = "HTTP_301"
         /\ Hops[i].response.location =
              [Hops[i].request EXCEPT !.protocol = "HTTPS", !.port = "443"]

\* a plain-HTTP request to the CloudFormation-level stack was redirected,
\* and the HTTPS request that followed was forwarded
C13_Witness ==
  /\ stacks # <<>>
  /\ stacks[1].class = "EcsServiceCfnStack"
  /\ Len(Hops) = 2
  /\ Hops[1].request.protocol = "HTTP"
  /\ Hops[1].request.path = "/api/users"
  /\ Hops[1].response.type = "redirect"
  /\ Hops[2].request.protocol = "HTTPS"
  /\ Hops[2].request.path = "/api/users"
  /\ Hops[2].response.type = "forward"

\* the hops answered by the HTTPS listener with a redirect
HttpsRedirects ==
  {i \in 1..Len(Hops) : Hops[i].listener = "https" /\ Hops[i].response.type = "redirect"}

\* C23: in the path-based variant the priorities of the listener rules are
\* pairwise distinct and a request always ends in a forward: an HTTPS
\* request, the exact paths /api and /ui (redirected to /api-internal/ and
\* /ui-internal/) included, is redirected at most once, no redirect target
\* matches a redirect rule, and the request is forwarded to exactly one
\* target group, the one of port 8000 when no rule matches
C23_RedirectedAtMostOnce ==
  PathBasedStackServes =>
    LET rules == stacks[1].httpsListener.rules
    IN /\ \A i, j \in 1..Len(rules) : rules[i].priority = rules[j].priority => i = j
       /\ Cardinality(HttpsRedirects) <= 1
       /\ \A i \in HttpsRedirects :
            /\ \A j \in 1..Len(rules) :
                 rules[j].action.type = "redirect" =>
                   ~RuleMatches(rules[j], RequestForLocation(Hops[i].response.location))
            /\ Hops[i].request.path = "/api" =>
                 Hops[i].response.location.path = "/api-internal/"
            /\ Hops[i].request.path = "/ui" =>
                 Hops[i].response.location.path = "/ui-internal/"
       /\ \A i \in 1..Len(Hops) :
            (Hops[i].listener = "https" /\ Hops[i].response.type = "forward") =>
              /\ Hops[i].response.targetGroup \in DOMAIN stacks[1].targetGroups
              /\ (\A j \in 1..Len(rules) : ~RuleMatches(rules[j], Hops[i].request))
                   => Hops[i].response.port = 8000
       /\ http # NoRequest =>
            \/ http.state = "forwarded"
            \/ http.state = "sent" /\ Len(Hops) <= 2
            \/ http.state = "redirected" /\ Len(Hops) <= MaxRedirects

\* the exact path /api was redirected once and then forwarded
C23_Witness ==
  /\ PathBasedStackServes
  /\ http # NoRequest
  /\ http.state = "forwarded"
  /\ Len(Hops) = 2
  /\ Hops[1].listener = "https"
  /\ Hops[1].request.path = "/api"
  /\ Hops[1].response.type = "redirect"
  /\ Hops[2].request.path = "/api-internal/"
  /\ Hops[2].response = [type |-> "forward", targetGroup |-> "tg8001", port |-> 8001]

----------------------------------------------------------------------------
(* Properties of the blue/green wiring *)

Range(seq) == {seq[i] : i \in 1..Len(seq)}

BlueGreenWired(stack) ==
  /\ stack.service.deploymentController = "CODE_DEPLOY"
  /\ DOMAIN stack.targetGroups = {"blue", "green"}
  /\ stack.targetGroups.blue.port = stack.targetGroups.green.port
  /\ stack.targetGroups.blue.healthCheck = stack.targetGroups.green.healthCheck
  /\ \A i \in 1..Len(stack.service.loadBalancers) :
       stack.service.loadBalancers[i].targetGroup = "green"
  /\ stack.service.loadBalancers # <<>>
  /\ stack.httpsListener.defaultAction = ForwardAction(<<"green">>)
  /\ Range(stack.deploymentGroup.targetGroups) = {"blue", "green"}
  /\ stack.deploymentGroup.listener = <<"https">>

\* C14: in both modes of the entry point every stack built is wired for
\* blue/green deployment: the service uses the CODE_DEPLOY controller, the
\* blue and the green target group have the same port and health check,
\* the service and the HTTPS listener point at green, and the deployment
\* group is given the blue and the green target group and the listener
C14_BlueGreenWired ==
  \A k \in 1..Len(stacks) : BlueGreenWired(stacks[k])

----------------------------------------------------------------------------
(* Properties of scripts/deploy.sh *)

\* what the operator named on the command line, defaults included
NamedEnvironment == Positional(sh.args, 1)

NamedAction == PositionalOrDefault(sh.args, 2, "deploy")

NamedStackType == PositionalOrDefault(sh.args, 3, "high-level")

\* the script got as far as starting the tool
ToolInvoked == sh.invocations # <<>>

\* the script ended with status 1 and never started the tool
TurnedAway == sh.exit = <<1>> /\ ~ToolInvoked /\ pc = "idle"

\* the script accepts the arguments and the entry point resolves the
\* environment and the mode that were named
AcceptedAndResolved ==
  /\ sh.state = "exited" => ToolInvoked
  /\ pc \notin {"idle", "start"} => environmentName = NamedEnvironment
  /\ pc \notin {"idle", "start", "readStackType"} => stackType = NamedStackType

\* C15: deploy.sh accepts every environment of dev, qa, prod and local,
\* every stack type of high-level and cfn and every operation of deploy,
\* diff, destroy and synth, and passes environment and stack type to the
\* tool so that the entry point resolves exactly what was named
C15_AcceptsEveryEnvironment ==
  (/\ NamedEnvironment \in {"dev", "qa", "prod", "local"}
   /\ NamedAction \in DeployActions
   /\ NamedStackType \in SupportedStackTypes) => AcceptedAndResolved

\* C15, as the script has it: the environments accepted are dev, qa and
\* prod, for which the entry point resolves exactly the environment and
\* the mode named; the environment local is turned away with status 1
\* before the tool is started
C15_AcceptsDevQaProd ==
  /\ (/\ NamedEnvironment \in {"dev", "qa", "prod"}
      /\ NamedAction \in DeployActions
      /\ NamedStackType \in SupportedStackTypes) => AcceptedAndResolved
  /\ NamedEnvironment = "local" =>
       /\ ~ToolInvoked
       /\ pc = "idle"
       /\ sh.state = "exited" => TurnedAway

\* prod cfn synth has run the entry point, which built the cfn stacks of prod
C15_Witness ==
  /\ sh.args = <<"prod", "synth", "cfn">>
  /\ sh.state = "exited"
  /\ sh.exit = <<0>>
  /\ pc = "done"
  /\ environmentName = "prod"
  /\ stackType = "cfn"
  /\ Len(stacks) = Len(ProdConfig.regions)
  /\ \A k \in 1..Len(stacks) : stacks[k].class = "EcsServiceCfnStack"

ArgumentsValid ==
  /\ NamedEnvironment \in {"dev", "qa", "prod"}
  /\ NamedStackType \in SupportedStackTypes
  /\ NamedAction \in DeployActions

\* C16: deploy.sh starts the tool at most once in a run and only after all
\* its arguments are validated: with a missing or unrecognised environment,
\* an unrecognised stack type or an unrecognised action it exits with
\* status 1 and the tool is never started
C16_ToolOnceAfterValidation ==
  /\ Len(sh.invocations) <= 1
  /\ ToolInvoked => ArgumentsValid
  /\ pc # "idle" => ToolInvoked
  /\ (~ArgumentsValid /\ sh.state = "exited") => TurnedAway

\* a run with an unrecognised stack type has ended
C16_Witness ==
  /\ sh.args = <<"dev", "deploy", "simple">>
  /\ sh.state = "exited"
  /\ TurnedAway

\* C17: whenever the tool exits non-zero deploy.sh exits non-zero, and
\* deploy.sh exits 0 only if the tool was started and succeeded
C17_ExitStatusFollowsTool ==
  sh.state = "exited" =>
    /\ (sh.toolStatus # <<>> /\ sh.toolStatus[1] # 0) => sh.exit[1] # 0
    /\ sh.exit = <<0>> => (Len(sh.invocations) = 1 /\ sh.toolStatus = <<0>>)

\* the tool built the stacks, then failed, and the script ended with its status
C17_Witness ==
  /\ sh.state = "exited"
  /\ pc = "done"
  /\ stacks # <<>>
  /\ sh.toolStatus = <<2>>
  /\ sh.exit = <<2>>

----------------------------------------------------------------------------
(* Properties of the configuration handed to the constructors *)

\* a region of the configuration lacks an identifier the stacks need
MissingIdentifiers(cfg) ==
  \E i \in 1..Len(cfg.regions) :
    \/ cfg.regions[i].value.securityGroupIds = <<>>
    \/ cfg.regions[i].value.subnetIds = <<>>
    \/ cfg.regions[i].value.certificateArn = ""

\* C18: a configuration with a required identifier missing (an empty
\* security-group list, an empty subnet list or an empty certificate id)
\* is rejected with a fatal configuration error before any resource
\* description is built
C18_MissingIdentifiersRejected ==
  (/\ pc \notin {"start", "readStackType"}
   /\ "regions" \in DOMAIN environmentConfig
   /\ MissingIdentifiers(environmentConfig)) =>
     NothingBuilt

\* C19: the environment table is read-only at run time: no step of the
\* entry point, the construction of a stack and the merge of the container
\* environment variables included, changes an EnvironmentConfig or a
\* RegionConfig of the table, nor the configuration resolved from it
C19_TableReadOnly ==
  [][/\ table' = table
     /\ pc = "forEach" => /\ environmentConfig' = environmentConfig
                          /\ regionValues' = regionValues]_vars

\* every region of prod has its stack, each with the custom variables
\* merged in after the two system variables
C19_Witness ==
  /\ pc = "done"
  /\ environmentName = "prod"
  /\ Len(stacks) = 2
  /\ \A k \in 1..2 :
       Len(stacks[k].container.environment)
         = Len(GetOwn(table, "prod").containerEnvironmentVariables) + 2

\* what a stack declares, without the props it was built from
DescriptionOf(stack) ==
  [f \in DOMAIN stack \ {"environmentConfig", "regionConfig"} |-> stack[f]]

\* the stack of one region, from the configuration of the environment
\* with its regions taken out and the configuration of that region
StackOfRegion(type, environmentCfg, regionCfg) ==
  LET id == environmentCfg.appName \o "-" \o environmentCfg.environment \o "-"
              \o regionCfg.region \o (IF type = "cfn" THEN "-cfn" ELSE "")
      props == [env |-> [region |-> regionCfg.region],
                environmentConfig |-> [environmentCfg EXCEPT !.regions = <<>>],
                regionConfig |-> regionCfg]
  IN IF type = "cfn" THEN EcsServiceCfnStack(id, props) ELSE EcsServiceStack(id, props)

\* C20: the stack built for a region is a function of the configuration
\* of the environment and of that region alone: whatever the other regions
\* of the table are (changed, added, removed, listed in another order), it
\* declares what the shipped configuration of the environment and the
\* configuration of its own region give
C20_RegionsIndependent ==
  \A k \in 1..Len(stacks) :
    DescriptionOf(stacks[k])
      = DescriptionOf(StackOfRegion(stackType, GetOwn(environments, environmentName),
                                    regionValues[k]))

\* prod with its regions in the other order: the second stack built is the
\* one of us-east-1
C20_Witness ==
  /\ table = WithRegions("prod", <<ProdConfig.regions[2], ProdConfig.regions[1]>>)
  /\ pc = "done"
  /\ stackType = "cfn"
  /\ Len(stacks) = 2
  /\ stacks[1].id = "mcp-gw-prod-us-west-2-cfn"
  /\ stacks[2].id = "mcp-gw-prod-us-east-1-cfn"
  /\ stacks[2].regionConfig = GetOwn(ProdConfig.regions, "us-east-1")

----------------------------------------------------------------------------
(* Properties of the names the stacks give their resources *)

Named(kind, name) == [kind |-> kind, name |-> name]

\* the resources of a blue/green stack that are given a name
ResourceNames(stack) ==
  {Named("cluster", stack.clusterName),
   Named("logGroup", stack.logGroupName),
   Named("taskDefinition", stack.taskDefinition.family),
   Named("loadBalancer", stack.loadBalancer.name),
   Named("greenTargetGroup", stack.targetGroups.green.name),
   Named("blueTargetGroup", stack.targetGroups.blue.name),
   Named("service", stack.service.serviceName),
   Named("codeDeployApplication", stack.codeDeployApplication.applicationName),
   Named("deploymentGroup", stack.deploymentGroup.deploymentGroupName),
   Named("recordSet", stack.recordSet.name)}
  \cup (IF "scalingPolicyNames" \in DOMAIN stack
        THEN {Named("scalingPolicy", stack.scalingPolicyNames[i]) :
                i \in 1..Len(stack.scalingPolicyNames)}
        ELSE {})

\* name is appName-environment-type-region for a type that is not empty
FollowsPattern(name, stack) ==
  LET prefix == stack.environmentConfig.appName \o "-"
                  \o stack.environmentConfig.environment \o "-"
      suffix == "-" \o stack.regionConfig.region
  IN /\ HasPrefix(name, prefix)
     /\ HasSuffix(name, suffix)
     /\ Len(name) > Len(prefix) + Len(suffix)

\* appName-environment-region, with -cfn behind it in cfn mode
StackIdFollowsPattern(stack) ==
  stack.id = stack.environmentConfig.appName \o "-" \o stack.environmentConfig.environment
               \o "-" \o stack.regionConfig.region
               \o (IF stack.class = "EcsServiceCfnStack" THEN "-cfn" ELSE "")

\* the deployment units of the table: every environment, each of its
\* regions, both modes
UnitKeys ==
  UNION {{<<e, r, type>> : r \in 1..Len(environments[e].value.regions),
                           type \in SupportedStackTypes} :
           e \in 1..Len(environments)}

TableUnits ==
  {StackOfRegion(key[3], environments[key[1]].value,
                 environments[key[1]].value.regions[key[2]].value) :
     key \in UnitKeys}

\* stack IDs are pairwise distinct, and no name is given twice, within a
\* unit or across units
NamesDistinct(stack) ==
  /\ Cardinality({u.id : u \in TableUnits}) = Cardinality(UnitKeys)
  /\ \A a, b \in ResourceNames(stack) : a.name = b.name => a = b
  /\ \A u \in TableUnits :
       u.id # stack.id =>
         {a.name : a \in ResourceNames(u)} \cap {a.name : a \in ResourceNames(stack)} = {}

\* C21: every named resource follows appName-environment-type-region and
\* the stack ID is appName-environment-region (with -cfn in cfn mode), so
\* over the environments of the table, their regions and both modes the
\* stack IDs are pairwise distinct and no two resources have the same name
C21_EveryNameFollowsPattern ==
  \A k \in 1..Len(stacks) :
    /\ StackIdFollowsPattern(stacks[k])
    /\ \A a \in ResourceNames(stacks[k]) : FollowsPattern(a.name, stacks[k])
    /\ NamesDistinct(stacks[k])

\* C21, as the constructors have it: the log group is named /ecs/ followed
\* by the name of the service, the record set of the high-level stack is
\* named appName-environment-region, every other named resource follows
\* appName-environment-type-region; stack IDs are pairwise distinct and no
\* two resources have the same name
C21_NamesFollowPatternBarTwo ==
  \A k \in 1..Len(stacks) :
    /\ StackIdFollowsPattern(stacks[k])
    /\ \A a \in ResourceNames(stacks[k]) :
         CASE a.kind = "logGroup" -> a.name = "/ecs/" \o stacks[k].service.serviceName
           [] a.kind = "recordSet" /\ stacks[k].class = "EcsServiceStack" ->
                a.name = stacks[k].id
           [] OTHER -> FollowsPattern(a.name, stacks[k])
    /\ NamesDistinct(stacks[k])

\* both cfn stacks of prod are built
C21_Witness ==
  /\ pc = "done"
  /\ stackType = "cfn"
  /\ environmentName = "prod"
  /\ Len(stacks) = 2
  /\ stacks[1].id = "mcp-gw-prod-us-east-1-cfn"
  /\ stacks[2].loadBalancer.name = "mcp-gw-prod-cfn-alb-us-west-2"
  /\ Cardinality(ResourceNames(stacks[2])) = 12

\* C28: for every environment and region of the table, the name of the load
\* balancer and the name of each target group of every stack built is at
\* most 32 characters long
C28_NamesWithinLimit ==
  \A i \in 1..Len(stacks) :
    /\ Len(stacks[i].loadBalancer.name) <= 32
    /\ \A tg \in DOMAIN stacks[i].targetGroups :
         Len(stacks[i].targetGroups[tg].name) <= 32

----------------------------------------------------------------------------
(* Properties of the stacks over any configuration *)

\* C22: the host-based SimpleEcsServiceStack declares its service with a
\* desired count of exactly 1 whatever desiredCount, minCapacity and
\* maxCapacity the configuration has, with the ECS rolling deployment
\* controller, and declares no scalable target and no scaling policy
C22_FixedTaskCount ==
  \A k \in 1..Len(stacks) :
    (stacks[k].class = "SimpleEcsServiceStack" /\ stacks[k].routing = "host-header") =>
      /\ stacks[k].service.desiredCount = 1
      /\ stacks[k].service.deploymentController = "ECS"
      /\ stacks[k].scaling.scalableTargets = <<>>
      /\ stacks[k].scaling.policies = <<>>

\* the host-based stack built from a configuration that asks for ten tasks
C22_Witness ==
  /\ Len(stacks) = 1
  /\ stacks[1].class = "SimpleEcsServiceStack"
  /\ stacks[1].routing = "host-header"
  /\ stacks[1].environmentConfig.desiredCount = 10
  /\ stacks[1].environmentConfig.minCapacity = 5
  /\ stacks[1].service.desiredCount = 1

----------------------------------------------------------------------------
(* Properties of the creation order of the resources *)

RECURSIVE DependsOnWithin(_, _, _)
\* the resources reached from a resource along at most n dependencies
DependsOnWithin(dependsOn, resource, n) ==
  IF n = 0 THEN {}
  ELSE dependsOn[resource] \cup
       UNION {DependsOnWithin(dependsOn, r, n - 1) : r \in dependsOn[resource]}

CreatedOnlyAfter(resource, others) ==
  resource \in created => others \subseteq created

\* C24: in the cfn stack the declared dependencies are acyclic and, in every
\* creation order that respects them, the service is created only after the
\* green target group and the HTTPS listener exist, the scalable target only
\* after the service, both scaling policies only after the scalable target,
\* and the deployment group only after the service and the cluster
C24_CreationOrder ==
  stacks # <<>> =>
    LET dependsOn == stacks[1].dependsOn
    IN /\ \A resource \in DOMAIN dependsOn :
            resource \notin DependsOnWithin(dependsOn, resource, Cardinality(DOMAIN dependsOn))
       /\ CreatedOnlyAfter("CfnService", {"CfnGreenTargetGroup", "CfnHttpsListener"})
       /\ CreatedOnlyAfter("CfnScalableTarget", {"CfnService"})
       /\ CreatedOnlyAfter("CfnCpuScalingPolicy", {"CfnScalableTarget"})
       /\ CreatedOnlyAfter("CfnMemoryScalingPolicy", {"CfnScalableTarget"})
       /\ CreatedOnlyAfter("CfnDeploymentGroup", {"CfnService", "CfnCluster"})

\* every resource of the stack was created
C24_Witness ==
  /\ stacks # <<>>
  /\ created = EcsServiceCfnStackResources
  /\ "CfnDeploymentGroup" \in created

----------------------------------------------------------------------------
(* Properties of the ports of the target groups *)

\* the ports the container of a stack declares in its port mappings
MappedPorts(stack) ==
  {stack.container.portMappings[i].containerPort :
     i \in 1..Len(stack.container.portMappings)}

\* C26: in every stack variant the port of each target group is one of the
\* container's port mappings, and each target group the service is
\* registered with routes to the container port of its own: containerPort
\* in the standard and cfn stacks, 8000, 8001 and 8002 in both
\* SimpleEcsServiceStack variants
C26_TargetGroupsRouteToMappedPorts ==
  stacks # <<>> =>
    LET stack == stacks[1]
        registrations == stack.service.loadBalancers
    IN /\ \A tg \in DOMAIN stack.targetGroups :
            stack.targetGroups[tg].port \in MappedPorts(stack)
       /\ \A i \in 1..Len(registrations) :
            /\ registrations[i].containerPort \in MappedPorts(stack)
            /\ registrations[i].containerPort = stack.targetGroups[registrations[i].targetGroup].port
       /\ {registrations[i].containerPort : i \in 1..Len(registrations)} =
            IF stack.class \in {"EcsServiceStack", "EcsServiceCfnStack"}
            THEN {stack.environmentConfig.containerPort}
            ELSE {8000, 8001, 8002}

----------------------------------------------------------------------------
(* Properties of the two stack modes compared *)

\* the name -> value pairs of a rendered container environment
EnvironmentPairs(rendered) == {rendered[i] : i \in 1..Len(rendered)}

\* the runtime parameters of a stack but the security groups and the
\* container environment
SizingOf(stack) ==
  [image |-> stack.container.image,
   portMappings |-> stack.container.portMappings,
   cpu |-> stack.taskDefinition.cpu,
   memory |-> stack.taskDefinition.memory,
   desiredCount |-> stack.service.desiredCount,
   scaling |-> stack.scaling,
   healthCheck |-> stack.targetGroups.green.healthCheck,
   deploymentController |-> stack.service.deploymentController,
   serviceSecurityGroups |-> stack.service.securityGroups]

\* C27: for every EnvironmentConfig and RegionConfig the high-level and the
\* cfn stack agree on the container image, the container port, cpu and
\* memory, the container's name -> value environment, the desired count, the
\* scaling bounds and policies, the target-group health check, the
\* deployment controller type, and the security groups attached to the load
\* balancer and to the service
C27_ModesAgree ==
  (stacks # <<>> /\ stacks[1].class \in {"EcsServiceStack", "EcsServiceCfnStack"}) =>
    LET highLevel == EcsServiceStack("Stack", AnyProps)
        cfn == EcsServiceCfnStack("Stack", AnyProps)
    IN /\ stacks[1] \in {highLevel, cfn}
       /\ SizingOf(highLevel) = SizingOf(cfn)
       /\ EnvironmentPairs(highLevel.container.environment) =
            EnvironmentPairs(cfn.container.environment)
       /\ highLevel.loadBalancer.securityGroups = cfn.loadBalancer.securityGroups

----------------------------------------------------------------------------
(* Properties of scripts/localstack.sh *)

\* the health checks made inside wait_for_localstack, in order
WaitChecks == sh.waitChecks

\* C29: wait_for_localstack always terminates: it makes at most 30 health
\* checks, returns 0 at the first successful one without a further check,
\* returns 1 after exactly 30 consecutive failed checks, and the increment
\* of the attempt counter never ends the script under set -e
C29_WaitTerminates ==
  /\ Len(WaitChecks) <= 30
  /\ \A i \in 1..(Len(WaitChecks) - 1) : ~WaitChecks[i]
  /\ (WaitChecks # <<>> /\ WaitChecks[Len(WaitChecks)]) <=> sh.waitReturn = <<0>>
  /\ sh.waitReturn = <<1>> =>
       /\ Len(WaitChecks) = 30
       /\ \A i \in 1..30 : ~WaitChecks[i]
  /\ sh.state \in {"waitTest", "waitCheck", "waitSleep"} =>
       /\ sh.attempt \in 1..31
       /\ sh.waitReturn = <<>>
       /\ Len(WaitChecks) = IF sh.state = "waitSleep" THEN sh.attempt ELSE sh.attempt - 1
  /\ sh.abortedBy # <<"((attempt++))">>

\* thirty checks failed and wait_for_localstack returned 1
C29_Witness ==
  /\ sh.waitReturn = <<1>>
  /\ Len(WaitChecks) = 30
  /\ sh.attempt = 31
  /\ sh.exit = <<1>>

Ran(cmd) == \E i \in 1..Len(sh.ran) : sh.ran[i] = cmd

RanBefore(first, second) ==
  \A j \in 1..Len(sh.ran) :
    sh.ran[j] = second => \E i \in 1..(j - 1) : sh.ran[i] = first

CdklocalDeploy == "cdklocal deploy --all -c environment=local --require-approval never"

\* LocalStack did not answer the health check the deploy branch starts with
NotRunningAtStart == sh.healthChecks # <<>> /\ ~sh.healthChecks[1]

\* C30 as stated: in the deploy branch cdklocal deploy is run only after a
\* health check succeeded and after the build succeeded; when LocalStack was
\* not running and wait_for_localstack exhausts its attempts the script ends
\* with a non-zero status without init_localstack, the build or cdklocal
\* deploy; and a run of the branch has run init_localstack if and only if
\* LocalStack was not running at the start
C30_InitIffNotRunning ==
  sh.COMMAND = "deploy" =>
    /\ Ran(CdklocalDeploy) =>
         /\ \E i \in 1..Len(sh.healthChecks) : sh.healthChecks[i]
         /\ RanBefore("build done", CdklocalDeploy)
    /\ (NotRunningAtStart /\ sh.waitReturn = <<1>>) =>
         /\ sh.state = "exited"
         /\ sh.exit \notin {<<>>, <<0>>}
         /\ ~Ran("init_localstack")
         /\ ~Ran("build_sample_app")
         /\ ~Ran(CdklocalDeploy)
    /\ sh.state = "exited" => (Ran("init_localstack") <=> NotRunningAtStart)

\* C30 amended: in the deploy branch cdklocal deploy is run only after a health check
\* succeeded and after the build of the sample application succeeded; when
\* LocalStack was not running and wait_for_localstack exhausts its attempts,
\* the script ends with a non-zero status without init_localstack, the build
\* or cdklocal deploy; init_localstack is run only when LocalStack was not
\* running at the start, and always before the build in that case
C30_DeployAfterHealthAndBuild ==
  sh.COMMAND = "deploy" =>
    /\ Ran(CdklocalDeploy) =>
         /\ \E i \in 1..Len(sh.healthChecks) : sh.healthChecks[i]
         /\ RanBefore("build done", CdklocalDeploy)
    /\ (NotRunningAtStart /\ sh.waitReturn = <<1>>) =>
         /\ sh.state = "exited"
         /\ sh.exit \notin {<<>>, <<0>>}
         /\ ~Ran("init_localstack")
         /\ ~Ran("build_sample_app")
         /\ ~Ran(CdklocalDeploy)
    /\ Ran("init_localstack") => NotRunningAtStart
    /\ (Ran("build_sample_app") /\ NotRunningAtStart) =>
         RanBefore("init_localstack", "build_sample_app")

\* LocalStack was started, initialised, and the stacks were deployed
C30_Witness ==
  /\ sh.COMMAND = "deploy"
  /\ NotRunningAtStart
  /\ sh.waitReturn = <<0>>
  /\ Ran("init_localstack")
  /\ Ran("build done")
  /\ Ran(CdklocalDeploy)
  /\ sh.exit = <<0>>


====
